---- MODULE Spec2Model ----
(***************************************************************************)
(* Credential and session lifecycle of the auth package: register, login,  *)
(* logout, current-user resolution with sliding refresh, password change,  *)
(* revocation and pruning, over a transactional store.                     *)
(*                                                                         *)
(* Strings are sequences of one-character strings.  Times are counted in   *)
(* clock ticks, TicksPerSecond ticks to the second; the store keeps whole  *)
(* Unix seconds.  A bcrypt hash is the pair of the secret it verifies and  *)
(* the cost embedded in it.  A session token is the ordinal of the value   *)
(* drawn from crypto/rand: every draw is fresh.                            *)
(***************************************************************************)
EXTENDS Integers, Sequences, FiniteSets, TLC

VARIABLES
    users,      \* committed rows of table users: [id, email, hash]
    sessions,   \* committed rows of table sessions: [token, user_id, expires_at]
    tx,         \* the open write transaction: its owner and its view of the tables
    cfg,        \* the configuration after applyDefaults
    now,        \* the package clock, in ticks
    pc,         \* where each call in flight stands
    loc,        \* the local variables of each call in flight
    nextToken,  \* ordinal of the next value newSessionToken draws
    resp,       \* what the step just taken returned to its caller
    faults,     \* whether the store may fail statements in this run
    issuedTo,   \* history: the credential each token was issued to
    wasDead,    \* history: tokens whose session was deleted or reached its expiry
    loggedOut,  \* history: tokens a Logout has completed for
    regSecret,  \* history: per identity, the secret of its Register while no
                \* password change has committed since
    tokenCap,   \* how many values newSessionToken draws in this run
    janitor,    \* where the janitor goroutine stands
    stopCh,     \* the stop channel: "open" or "closed"
    tickC,      \* whether a tick is buffered in ticker.C
    closer,     \* where the call of Close stands
    dbOpen,     \* whether the store handle is open
    req         \* the HTTP request SameOrigin is asked about

vars == <<users, sessions, tx, cfg, now, pc, loc, nextToken, resp, faults,
          issuedTo, wasDead, loggedOut, regSecret,
          tokenCap, janitor, stopCh, tickC, closer, dbOpen, req>>

(* ------------------------------ bounds -------------------------------- *)

NumProcs == 2
MaxTokens == 1
MaxSeconds == 5

(* ------------------------- program constants -------------------------- *)

FailedLoginDelayMs == 250
BcryptMinCost == 4
BcryptMaxCost == 31
BcryptDefaultCost == 10
DefaultMinPasswordLength == 8
DefaultTTLSeconds == 86400
TicksPerSecond == 2

(* ------------------------------ strings ------------------------------- *)

UpperLetters == <<"A", "B", "C", "D", "E", "F", "G", "H", "I", "J", "K", "L", "M",
                  "N", "O", "P", "Q", "R", "S", "T", "U", "V", "W", "X", "Y", "Z">>

LowerLetters == <<"a", "b", "c", "d", "e", "f", "g", "h", "i", "j", "k", "l", "m",
                  "n", "o", "p", "q", "r", "s", "t", "u", "v", "w", "x", "y", "z">>

LowerChar(c) ==
    IF \E i \in DOMAIN UpperLetters : UpperLetters[i] = c
    THEN LowerLetters[CHOOSE i \in DOMAIN UpperLetters : UpperLetters[i] = c]
    ELSE c

ToLower(s) == [i \in DOMAIN s |-> LowerChar(s[i])]

\* The white space strings.TrimSpace cuts (the ASCII part of it).
IsSpace(c) == c \in {" ", "\t", "\n", "\r"}

RECURSIVE TrimLeft(_)
TrimLeft(s) ==
    IF s /= <<>> /\ IsSpace(Head(s)) THEN TrimLeft(Tail(s)) ELSE s

RECURSIVE TrimRight(_)
TrimRight(s) ==
    IF s /= <<>> /\ IsSpace(s[Len(s)])
    THEN TrimRight(SubSeq(s, 1, Len(s) - 1))
    ELSE s

TrimSpace(s) == TrimRight(TrimLeft(s))

Contains(s, c) == \E i \in DOMAIN s : s[i] = c

Count(s, c) == Cardinality({i \in DOMAIN s : s[i] = c})

IndexOf(s, c) == CHOOSE i \in DOMAIN s : s[i] = c /\ \A j \in 1..(i - 1) : s[j] /= c

normalizeEmailNoLower(e) == TrimSpace(e)

\* normalizeEmail: strings.TrimSpace(strings.ToLower(e)).
normalizeEmail(e) == TrimSpace(ToLower(e))

\* validEmailBasic: exactly one "@", both parts non-empty, a "." in the domain.
validEmailBasic(e) ==
    IF e = <<>> \/ ~Contains(e, "@") THEN FALSE
    ELSE IF Count(e, "@") + 1 /= 2 THEN FALSE
    ELSE LET at == IndexOf(e, "@")
             local == SubSeq(e, 1, at - 1)
             domain == SubSeq(e, at + 1, Len(e))
         IN  ~(local = <<>> \/ domain = <<>> \/ ~Contains(domain, "."))

IsDigit(c) == c \in {"0", "1", "2", "3", "4", "5", "6", "7", "8", "9"}

IsLetter(c) ==
    \E i \in DOMAIN LowerLetters : c = LowerLetters[i] \/ c = UpperLetters[i]

hasLetterOrDigit(s) ==
    (\E i \in DOMAIN s : IsLetter(s[i])) \/ (\E i \in DOMAIN s : IsDigit(s[i]))

hasLetterAndDigit(s) ==
    (\E i \in DOMAIN s : IsLetter(s[i])) /\ (\E i \in DOMAIN s : IsDigit(s[i]))

\* validatePasswordPolicy: "" when the secret passes, else the error (without
\* the "(min n)" the code appends to the first).
validatePasswordPolicy(pw, minLen, requireStrong) ==
    IF Len(pw) < minLen THEN "password too short"
    ELSE IF requireStrong /\ ~hasLetterAndDigit(pw)
         THEN "password must contain at least one letter and one digit"
         ELSE ""

(* ------------------------------- bcrypt ------------------------------- *)

NoHash == [secret |-> <<>>, cost |-> 0]

validateBcryptCostNoMax(cost) == ~(cost < BcryptMinCost)

\* validateBcryptCost: TRUE when the cost is accepted.
validateBcryptCost(cost) == ~(cost < BcryptMinCost \/ cost > BcryptMaxCost)

\* bcrypt.GenerateFromPassword: a cost below MinCost is replaced by DefaultCost.
GenerateFromPassword(pw, cost) ==
    [secret |-> pw, cost |-> IF cost < BcryptMinCost THEN BcryptDefaultCost ELSE cost]

compareAtConfiguredCost(hash, pw) == hash.secret = pw /\ hash.cost = cfg.BcryptCost

\* bcrypt.CompareHashAndPassword: TRUE when the hash verifies the secret.
CompareHashAndPassword(hash, pw) == hash.secret = pw

\* bcrypt.Cost: the cost embedded in the hash.
Cost(hash) == hash.cost

(* ------------------------------- inputs ------------------------------- *)

\* The identities requests are made for, in lower-cased, trimmed form.
Bases == << <<"a", "@", "b", ".", "c">>, <<"d", "@", "b", ".", "c">> >>

\* A request spells an identity with its first letter in upper case and/or
\* with surrounding white space.
Decorate(b, upper, pad) ==
    LET e == Bases[b]
        u == IF upper THEN <<UpperLetters[CHOOSE i \in DOMAIN LowerLetters :
                                             LowerLetters[i] = Head(e)]>> \o Tail(e)
             ELSE e
    IN  IF pad THEN <<" ">> \o u \o <<" ", "\t">> ELSE u

\* Malformed identities: no "@", no "." in the domain, empty local part, two "@".
BadEmails == { <<"a", "b", ".", "c">>, <<"a", "@", "b">>, <<"@", "b", ".", "c">>,
               <<"a", "@", "@", "b", ".", "c">>, <<>> }

Pw1 == <<"a", "b", "c", "d", "a", "b", "c", "1">>
Pw2 == <<"d", "c", "b", "a", "d", "c", "b", "2">>
PwShort == <<"a", "1">>

\* Secrets a policy can refuse: three characters, letters only, digits only.
PwThree == <<"a", "b", "1">>
PwLetters == <<"a", "b", "c", "d", "a", "b", "c", "d">>
PwDigits == <<"1", "2", "3", "4", "1", "2", "3", "4">>
PolicyPasswords == {Pw1, PwShort, PwThree, PwLetters, PwDigits}

GoodPasswords == {Pw1, Pw2}
Passwords == GoodPasswords \cup {PwShort}

CostInputs == {BcryptMinCost - 1, BcryptMinCost, BcryptMinCost + 1, BcryptMinCost + 2,
               BcryptMaxCost + 1}

Procs == 1..NumProcs
UserIds == 1..Len(Bases)
NoToken == 0
BogusToken == MaxTokens + 2
MaxTime == MaxSeconds * TicksPerSecond

(* -------------------------------- time -------------------------------- *)

\* time.Time.Unix(): whole seconds of a clock reading.
Unix(t) == t \div TicksPerSecond

\* int64(time.Duration.Seconds()): whole seconds of a duration.
Seconds(d) == d \div TicksPerSecond

(* ------------------------------- store -------------------------------- *)

NoTx == [owner |-> 0, users |-> {}, sessions |-> {}]

\* The write lock of the store is free for p: no other transaction holds it.
WriteFree(p) == tx.owner = 0 \/ tx.owner = p

\* Statements fail only in runs where the store is allowed to fail.
Fail == IF faults THEN BOOLEAN ELSE {FALSE}

UserByEmail(us, email) == {u \in us : u.email = email}
UserByIdAny(us, id) == us

UserById(us, id) == {u \in us : u.id = id}
SessionByToken(ss, token) == {s \in ss : s.token = token}

DeleteByTokenOwner(ss, token) ==
    {s \in ss : \A r \in ss : r.token = token => s.user_id /= r.user_id}

\* DELETE FROM sessions WHERE token = ?
DeleteByToken(ss, token) == {s \in ss : s.token /= token}

DeleteByUserAll(ss, uid) == {}

\* DELETE FROM sessions WHERE user_id = ?
DeleteByUser(ss, uid) == {s \in ss : s.user_id /= uid}

DeleteExpiredStrict(ss, unixNow) == {s \in ss : ~(s.expires_at < unixNow)}

\* DELETE FROM sessions WHERE expires_at <= ?
DeleteExpired(ss, unixNow) == {s \in ss : ~(s.expires_at <= unixNow)}

\* UPDATE sessions SET expires_at = ? WHERE token = ?
ExtendSession(ss, token, newExp) ==
    {IF s.token = token THEN [s EXCEPT !.expires_at = newExp] ELSE s : s \in ss}

\* UPDATE users SET password_hash = ? WHERE id = ?
UpdateHash(us, id, hash) ==
    {IF u.id = id THEN [u EXCEPT !.hash = hash] ELSE u : u \in us}

(* ------------------------------ cookies ------------------------------- *)

NoCookie == [kind |-> "none", value |-> NoToken, expires |-> 0, maxAge |-> 0]

\* clearCookie: empty value, Expires at the epoch, MaxAge 0.
clearCookie == [kind |-> "clear", value |-> NoToken, expires |-> 0, maxAge |-> 0]

\* setCookie: MaxAge is the whole seconds left to expires on the package clock,
\* the configured TTL when that is not positive, and 1 when that is not either.
setCookie(token, expires) ==
    LET left == expires * TicksPerSecond - now
        delta == IF left <= 0 THEN 0 ELSE left \div TicksPerSecond
        ttl == Seconds(cfg.SessionTTL)
    IN  [kind |-> "set", value |-> token, expires |-> expires,
         maxAge |-> IF delta > 0 THEN delta ELSE IF ttl > 0 THEN ttl ELSE 1]

(* --------------------------- calls in flight -------------------------- *)

NoLoc == [uid |-> 0, email |-> <<>>, hash |-> NoHash, token |-> NoToken,
          exp |-> 0, nowU |-> 0, base |-> 0, flag |-> FALSE, raw |-> <<>>,
          logged |-> ""]

NoResp == [op |-> "none", ok |-> FALSE, err |-> "", uid |-> 0, email |-> <<>>,
           cookie |-> NoCookie, delayMs |-> 0, token |-> NoToken, exp |-> 0,
           nowU |-> 0, cause |-> "", flag |-> FALSE, base |-> 0,
           pw |-> <<>>, oldpw |-> <<>>, raw |-> <<>>, rows |-> 0,
           logged |-> ""]

Reply(op, ok, err, uid, email, cookie) ==
    [NoResp EXCEPT !.op = op, !.ok = ok, !.err = err, !.uid = uid,
                   !.email = email, !.cookie = cookie]

Idle(p) == pc[p] = "idle"

\* A call that takes several steps runs in the lowest idle slot.
Free(p) == Idle(p) /\ \A q \in Procs : q < p => ~Idle(q)

Done(p) == pc' = [pc EXCEPT ![p] = "idle"] /\ loc' = [loc EXCEPT ![p] = NoLoc]

Goto(p, label, l) == pc' = [pc EXCEPT ![p] = label] /\ loc' = [loc EXCEPT ![p] = l]

(* ----------------------------- SameOrigin ----------------------------- *)

\* A request as SameOrigin reads it: the method, the Host, and the Origin and
\* Referer headers, <<>> when the header is absent.
NoReq == [method |-> "", host |-> <<>>, origin |-> <<>>, referer |-> <<>>]

\* url.Parse, as far as the host: a leading ":" is an error; letters before
\* the first ":" are the scheme; "//" opens the authority, which ends at the
\* next "/"; a space in the authority is an error; without "//" there is no
\* host.
urlParse(s) ==
    LET colon == IF Contains(s, ":") THEN IndexOf(s, ":") ELSE 0
        hasScheme == colon > 1 /\ \A i \in 1..(colon - 1) : IsLetter(s[i])
        rest == IF hasScheme THEN SubSeq(s, colon + 1, Len(s)) ELSE s
        slashes == Len(rest) >= 2 /\ rest[1] = "/" /\ rest[2] = "/"
        after == SubSeq(rest, 3, Len(rest))
        authority == IF Contains(after, "/")
                     THEN SubSeq(after, 1, IndexOf(after, "/") - 1)
                     ELSE after
    IN  IF colon = 1 THEN [err |-> TRUE, host |-> <<>>]
        ELSE IF ~slashes THEN [err |-> FALSE, host |-> <<>>]
        ELSE IF Contains(authority, " ") THEN [err |-> TRUE, host |-> <<>>]
        ELSE [err |-> FALSE, host |-> authority]

\* strings.EqualFold, on ASCII.
EqualFold(a, b) == ToLower(a) = ToLower(b)

isUnsafeMethodNever(m) == FALSE

isUnsafeMethod(m) == m \in {"POST", "PUT", "PATCH", "DELETE"}

\* SameOrigin: the Origin header decides when present; without it an unsafe
\* method falls back to the Referer header and a safe method is allowed.
SameOrigin(r) ==
    IF r.origin /= <<>>
    THEN IF urlParse(r.origin).err THEN FALSE
         ELSE EqualFold(urlParse(r.origin).host, r.host)
    ELSE IF isUnsafeMethod(r.method)
    THEN IF r.referer = <<>> THEN FALSE
         ELSE IF urlParse(r.referer).err THEN FALSE
         ELSE EqualFold(urlParse(r.referer).host, r.host)
    ELSE TRUE

Http == <<"h", "t", "t", "p">>
HostAB == <<"a", ".", "b">>
HostCD == <<"c", ".", "d">>

Url(scheme, host, path) == scheme \o <<":", "/", "/">> \o host \o path

Methods == {"GET", "HEAD", "OPTIONS", "POST", "PUT", "PATCH", "DELETE"}

Hosts == {HostAB, HostCD}

\* Origin values: absent, the host in either case and under either scheme,
\* another host, a value without a scheme, a value that does not parse.
Origins == {<<>>, Url(Http, HostAB, <<>>), Url(Http \o <<"s">>, <<"A", ".", "B">>, <<>>),
            Url(Http, HostCD, <<>>), HostAB, Url(Http, <<"a", " ", "b">>, <<>>)}

Referers == {<<>>, Url(Http, HostAB, <<"/", "x">>), Url(Http, HostCD, <<"/", "x">>),
             Url(Http, <<"a", " ", "b">>, <<>>)}

Requests ==
    {[method |-> m, host |-> h, origin |-> o, referer |-> f] :
        m \in Methods, h \in Hosts, o \in Origins, f \in Referers}

(* ------------------------------- config ------------------------------- *)

\* applyDefaults, on the fields the engine reads.
applyDefaults(c) ==
    [SessionTTL |-> IF c.SessionTTL <= 0 THEN DefaultTTLSeconds * TicksPerSecond
                    ELSE c.SessionTTL,
     BcryptCost |-> IF c.BcryptCost = 0 THEN BcryptDefaultCost ELSE c.BcryptCost,
     MinPasswordLength |-> IF c.MinPasswordLength <= 0 THEN DefaultMinPasswordLength
                           ELSE c.MinPasswordLength,
     RequireStrongPasswords |-> c.RequireStrongPasswords]

\* The configuration the runs are constructed with: a TTL of 5 s, the cost
\* of the package's tests, the default password policy.
TTLSeconds == 5

GivenConfig ==
    [SessionTTL |-> TTLSeconds * TicksPerSecond, BcryptCost |-> BcryptMinCost,
     MinPasswordLength |-> 0, RequireStrongPasswords |-> FALSE]

\* newAPI: defaults, cost validation, an empty migrated store.
InitWith(c, f) ==
    /\ cfg = applyDefaults(c)
    /\ validateBcryptCost(cfg.BcryptCost)
    /\ users = {}
    /\ sessions = {}
    /\ tx = NoTx
    /\ now = 0
    /\ pc = [p \in Procs |-> "idle"]
    /\ loc = [p \in Procs |-> NoLoc]
    /\ nextToken = 1
    /\ resp = NoResp
    /\ faults = f
    /\ issuedTo = [t \in {} |-> 0]
    /\ wasDead = {}
    /\ loggedOut = {}
    /\ regSecret = [b \in DOMAIN Bases |-> <<>>]
    /\ janitor = "wait"
    /\ stopCh = "open"
    /\ tickC = FALSE
    /\ closer = [at |-> "idle", midSweep |-> FALSE, tick |-> FALSE]
    /\ dbOpen = TRUE

Init == InitWith(GivenConfig, FALSE) /\ tokenCap = MaxTokens /\ req = NoReq

InitF == InitWith(GivenConfig, TRUE) /\ tokenCap = MaxTokens /\ req = NoReq

\* The costs New is given: unset, and around both ends of the range.
ConfigCosts == {0, BcryptMinCost - 1, BcryptMinCost, BcryptMinCost + 1,
                BcryptMaxCost, BcryptMaxCost + 1}

\* newAPI returning the error of validateBcryptCost: no store is opened, no
\* janitor is started, and there is no API to call.
NewFails(c) ==
    /\ cfg = applyDefaults(c)
    /\ ~validateBcryptCost(cfg.BcryptCost)
    /\ users = {}
    /\ sessions = {}
    /\ tx = NoTx
    /\ now = 0
    /\ pc = [p \in Procs |-> "idle"]
    /\ loc = [p \in Procs |-> NoLoc]
    /\ nextToken = 1
    /\ resp = NoResp
    /\ faults = FALSE
    /\ issuedTo = [t \in {} |-> 0]
    /\ wasDead = {}
    /\ loggedOut = {}
    /\ regSecret = [b \in DOMAIN Bases |-> <<>>]
    /\ janitor = "none"
    /\ stopCh = "open"
    /\ tickC = FALSE
    /\ closer = [at |-> "idle", midSweep |-> FALSE, tick |-> FALSE]
    /\ dbOpen = FALSE

\* New with each of the costs.
InitCost ==
    /\ tokenCap = MaxTokens + 1
    /\ req = NoReq
    /\ \E k \in ConfigCosts :
         \/ InitWith([GivenConfig EXCEPT !.BcryptCost = k], FALSE)
         \/ NewFails([GivenConfig EXCEPT !.BcryptCost = k])

(* -------------------------------- clock ------------------------------- *)

Tick ==
    /\ now + TicksPerSecond <= MaxTime
    /\ now' = now + TicksPerSecond
    /\ resp' = NoResp
    /\ UNCHANGED <<users, sessions, tx, cfg, pc, loc, nextToken, faults,
                   issuedTo, loggedOut, regSecret>>

\* The clock between whole seconds.
TickFine ==
    /\ now + 1 <= MaxTime
    /\ now' = now + 1
    /\ resp' = NoResp
    /\ UNCHANGED <<users, sessions, tx, cfg, pc, loc, nextToken, faults,
                   issuedTo, loggedOut, regSecret>>

\* The clock over a run twice as long.
LongTime == 2 * MaxTime

TickLong ==
    /\ now + TicksPerSecond <= LongTime
    /\ now' = now + TicksPerSecond
    /\ resp' = NoResp
    /\ UNCHANGED <<users, sessions, tx, cfg, pc, loc, nextToken, faults,
                   issuedTo, loggedOut, regSecret>>

(* --------------------------- SetBcryptCost ---------------------------- *)

SetBcryptCost(cost) ==
    /\ IF validateBcryptCost(cost)
       THEN /\ cfg' = [cfg EXCEPT !.BcryptCost = cost]
            /\ resp' = [Reply("SetBcryptCost", TRUE, "", 0, <<>>, NoCookie)
                          EXCEPT !.exp = cost]
       ELSE /\ cfg' = cfg
            /\ resp' = [Reply("SetBcryptCost", FALSE, "bcrypt cost must be in [4,31]",
                              0, <<>>, NoCookie) EXCEPT !.exp = cost]
    /\ UNCHANGED <<users, sessions, tx, now, pc, loc, nextToken, faults,
                   issuedTo, loggedOut, regSecret>>

(* ------------------------------ Register ------------------------------ *)

BaseOf(email) ==
    IF \E b \in DOMAIN Bases : Bases[b] = email
    THEN CHOOSE b \in DOMAIN Bases : Bases[b] = email
    ELSE 0

\* registerInternal up to BeginTx: normalise, validate, hash.
RegisterStart(p, raw, base, pw) ==
    LET email == normalizeEmail(raw)
        policy == validatePasswordPolicy(pw, cfg.MinPasswordLength,
                                         cfg.RequireStrongPasswords)
        hash == GenerateFromPassword(pw, cfg.BcryptCost)
        r(err) == [Reply("Register", FALSE, err, 0, <<>>, NoCookie)
                     EXCEPT !.base = base, !.pw = pw, !.raw = raw]
    IN  /\ Free(p)
        /\ \E fail \in Fail :
             IF ~validEmailBasic(email)
             THEN resp' = r("invalid email") /\ UNCHANGED <<pc, loc>>
             ELSE IF policy /= ""
             THEN resp' = r(policy) /\ UNCHANGED <<pc, loc>>
             ELSE IF fail
             THEN resp' = r("begin") /\ UNCHANGED <<pc, loc>>
             ELSE /\ resp' = NoResp
                  /\ Goto(p, "reg_insert",
                          [NoLoc EXCEPT !.email = email, !.hash = hash, !.base = base,
                                        !.flag = UserByEmail(users, email) = {}])
        /\ UNCHANGED <<users, sessions, tx, cfg, now, nextToken, faults,
                       issuedTo, loggedOut, regSecret>>

uniqueViolationNever(us, email) == FALSE

\* The UNIQUE constraint of users.email rejects a second row with the email.
uniqueViolation(us, email) == UserByEmail(us, email) /= {}

insertErrorRaw(dup) == "insert user"

\* The error registerInternal returns for a failed INSERT: a unique violation
\* on users.email is reported as "email already registered".
insertError(dup) == IF dup THEN "email already registered" ELSE "insert user"

\* INSERT INTO users inside the transaction, and LastInsertId.
RegisterInsert(p) ==
    LET l == loc[p]
        dup == uniqueViolation(users, l.email)
        id == Cardinality(users) + 1
        r(err) == [Reply("Register", FALSE, err, 0, <<>>, NoCookie)
                     EXCEPT !.base = l.base, !.pw = l.hash.secret, !.flag = l.flag]
    IN  /\ pc[p] = "reg_insert"
        /\ WriteFree(p)
        /\ \E fail \in Fail :
             IF dup \/ fail
             THEN /\ resp' = r(insertError(dup))
                  /\ tx' = NoTx
                  /\ Done(p)
             ELSE /\ resp' = NoResp
                  /\ tx' = [owner |-> p,
                            users |-> users \cup {[id |-> id, email |-> l.email,
                                                   hash |-> l.hash]},
                            sessions |-> sessions]
                  /\ Goto(p, "reg_commit", [l EXCEPT !.uid = id])
        /\ UNCHANGED <<users, sessions, cfg, now, nextToken, faults,
                       issuedTo, loggedOut, regSecret>>

\* tx.Commit, or the deferred rollback when it fails.
RegisterCommit(p) ==
    LET l == loc[p]
    IN  /\ pc[p] = "reg_commit"
        /\ \E fail \in Fail :
             IF fail
             THEN /\ resp' = [Reply("Register", FALSE, "commit", 0, <<>>, NoCookie)
                                EXCEPT !.base = l.base, !.pw = l.hash.secret]
                  /\ UNCHANGED <<users, regSecret>>
             ELSE /\ users' = tx.users
                  /\ resp' = [Reply("Register", TRUE, "", l.uid, l.email, NoCookie)
                                EXCEPT !.base = l.base, !.pw = l.hash.secret]
                  /\ regSecret' = IF l.base \in DOMAIN Bases
                                  THEN [regSecret EXCEPT ![l.base] = l.hash.secret]
                                  ELSE regSecret
        /\ tx' = NoTx
        /\ Done(p)
        /\ UNCHANGED <<sessions, cfg, now, nextToken, faults, issuedTo, loggedOut>>

(* -------------------------------- Login ------------------------------- *)

InFlightLogins ==
    {q \in Procs : pc[q] \in {"login_rehash", "login_upgrade", "login_session"}}

\* newSessionToken can still draw a value for one more login.
TokenLeft == nextToken - 1 + Cardinality(InFlightLogins) < tokenCap

loginCheckNoCompare(us, email, pw) ==
    IF UserByEmail(us, email) = {} THEN "no user" ELSE "ok"

\* The outcome of the lookup by email and the hash comparison.
loginCheck(us, email, pw) ==
    IF UserByEmail(us, email) = {} THEN "no user"
    ELSE IF \E u \in UserByEmail(us, email) : ~CompareHashAndPassword(u.hash, pw)
         THEN "wrong secret"
         ELSE "ok"

failedLoginDelayNotFound(cause) == IF cause = "no user" THEN 0 ELSE FailedLoginDelayMs

\* time.Sleep(failedLoginDelay) on both failure paths.
failedLoginDelay(cause) == FailedLoginDelayMs

\* The opportunistic upgrade applies: embedded cost below the configured one.
needsUpgrade(hash) == Cost(hash) < cfg.BcryptCost

\* loginInternal up to the hash comparison and the cost comparison.
LoginSelect(p, raw, base, pw) ==
    LET email == normalizeEmail(raw)
        check == loginCheck(users, email, pw)
        u == CHOOSE x \in UserByEmail(users, email) : TRUE
        expect == base \in DOMAIN Bases /\ regSecret[base] = pw
        r(err, cause, delay) ==
            [Reply("Login", FALSE, err, 0, <<>>, NoCookie)
               EXCEPT !.cause = cause, !.delayMs = delay, !.base = base,
                      !.pw = pw, !.flag = expect, !.raw = raw]
    IN  /\ Free(p)
        /\ check = "ok" => TokenLeft
        /\ \E fail \in Fail :
             IF fail
             THEN resp' = r("query user", "store", 0) /\ UNCHANGED <<pc, loc>>
             ELSE IF check /= "ok"
             THEN /\ resp' = r("invalid credentials", check, failedLoginDelay(check))
                  /\ UNCHANGED <<pc, loc>>
             ELSE /\ resp' = NoResp
                  /\ IF needsUpgrade(u.hash)
                     THEN Goto(p, "login_rehash",
                               [NoLoc EXCEPT !.uid = u.id, !.email = u.email,
                                  !.hash = u.hash, !.base = base, !.flag = expect,
                                  !.raw = raw, !.exp = cfg.BcryptCost])
                     ELSE Goto(p, "login_session",
                               [NoLoc EXCEPT !.uid = u.id, !.email = u.email,
                                  !.hash = u.hash, !.base = base, !.flag = expect,
                                  !.raw = raw])
        /\ UNCHANGED <<users, sessions, tx, cfg, now, nextToken, faults,
                       issuedTo, loggedOut, regSecret>>

rehashOfOther(pw, hash, cost) == GenerateFromPassword(Pw2, cost)

\* The hash the upgrade writes: of the presented secret, at the cost read.
rehash(pw, hash, cost) == GenerateFromPassword(pw, cost)

loginAbortOnUpgradeError(logged) == IF logged /= "" THEN "idle" ELSE "login_session"

\* Where loginInternal goes on after the upgrade block: to
\* createSessionAndSetCookie, whatever the block has logged.
loginAfterUpgrade(logged) == "login_session"

\* The second reading of the configured cost, which SetBcryptCost may have
\* replaced since the comparison (kept in exp): validateBcryptCost and the
\* rehash.  The presented secret is the one the stored hash verified.  An
\* error of GenerateFromPassword (its salt is read from crypto/rand) is logged.
LoginRehash(p) ==
    LET l == loc[p]
        err == "bcrypt rehash error"
    IN  /\ pc[p] = "login_rehash"
        /\ resp' = NoResp
        /\ \E fail \in Fail :
             IF ~validateBcryptCost(cfg.BcryptCost)
             THEN Goto(p, "login_session", l)
             ELSE IF fail
             THEN Goto(p, loginAfterUpgrade(err), [l EXCEPT !.logged = err])
             ELSE Goto(p, "login_upgrade",
                       [l EXCEPT !.hash = rehash(l.hash.secret, l.hash, cfg.BcryptCost)])
        /\ UNCHANGED <<users, sessions, tx, cfg, now, nextToken, faults,
                       issuedTo, loggedOut, regSecret>>

\* UPDATE users SET password_hash: best effort, a failure is only logged.
LoginUpgrade(p) ==
    LET l == loc[p]
    IN  /\ pc[p] = "login_upgrade"
        /\ WriteFree(p)
        /\ \E fail \in Fail :
             LET err == IF fail THEN "bcrypt upgrade failed" ELSE ""
             IN  /\ users' = IF fail THEN users ELSE UpdateHash(users, l.uid, l.hash)
                 /\ Goto(p, loginAfterUpgrade(err), [l EXCEPT !.logged = err])
        /\ resp' = NoResp
        /\ UNCHANGED <<sessions, tx, cfg, now, nextToken, faults,
                       issuedTo, loggedOut, regSecret>>

sessionExpiryNow(t, ttl) == Unix(t)

\* createSessionAndSetCookie: expires_at is the whole second of now + TTL.
sessionExpiry(t, ttl) == Unix(t + ttl)

createSessionCookieAlways(fail, token, expiresAt) == setCookie(token, expiresAt)

\* The cookie createSessionAndSetCookie leaves on the response: it returns
\* before setCookie when the INSERT fails.
createSessionCookie(fail, token, expiresAt) ==
    IF fail THEN NoCookie ELSE setCookie(token, expiresAt)

\* createSessionAndSetCookie and the return of loginInternal.
LoginSession(p) ==
    LET l == loc[p]
        token == nextToken
        expiresAt == sessionExpiry(now, cfg.SessionTTL)
        r(ok, err, cookie) ==
            [Reply("Login", ok, err, IF ok THEN l.uid ELSE 0,
                   IF ok THEN l.email ELSE <<>>, cookie)
               EXCEPT !.base = l.base, !.pw = l.hash.secret, !.flag = l.flag,
                      !.raw = l.raw, !.logged = l.logged,
                      !.token = token, !.exp = expiresAt, !.nowU = Unix(now),
                      !.cause = IF ok THEN "" ELSE "store"]
    IN  /\ pc[p] = "login_session"
        /\ nextToken <= tokenCap
        /\ WriteFree(p)
        /\ nextToken' = nextToken + 1
        /\ \E fail \in Fail :
             IF fail
             THEN /\ resp' = r(FALSE, "create session",
                                createSessionCookie(TRUE, token, expiresAt))
                  /\ UNCHANGED <<sessions, issuedTo>>
             ELSE /\ sessions' = sessions \cup {[token |-> token, user_id |-> l.uid,
                                                 expires_at |-> expiresAt]}
                  /\ issuedTo' = [t \in DOMAIN issuedTo \cup {token} |->
                                    IF t = token THEN l.uid ELSE issuedTo[t]]
                  /\ resp' = r(TRUE, "", createSessionCookie(FALSE, token, expiresAt))
        /\ Done(p)
        /\ UNCHANGED <<users, tx, cfg, now, faults, loggedOut, regSecret>>

(* ------------------------------- Logout ------------------------------- *)

\* The token values a request can carry: none, a value never issued, or an
\* issued one.
Presented == {NoToken, BogusToken} \cup (1..(nextToken - 1))

logoutErrorIfAbsent(ss, token) ==
    IF SessionByToken(ss, token) = {} THEN "delete session" ELSE ""

\* The error of logoutInternal when the DELETE itself was accepted: none,
\* whether or not a row was deleted.
logoutError(ss, token) == ""

logoutCookieKeptOnError(cause) == IF cause = "store" THEN NoCookie ELSE clearCookie

\* The cookie logoutInternal answers with: cleared on every path.
logoutCookie(cause) == clearCookie

\* logoutInternal: one DELETE by token; the cookie is cleared on every path.
Logout(token) ==
    LET r(err, cause) ==
            [Reply("Logout", err = "", err, 0, <<>>, logoutCookie(cause))
               EXCEPT !.token = token, !.flag = token \in loggedOut, !.cause = cause]
    IN  /\ \E fail \in Fail :
             IF token = NoToken
             THEN resp' = r("", "no token") /\ UNCHANGED <<sessions, loggedOut>>
             ELSE IF fail
             THEN resp' = r("delete session", "store") /\ UNCHANGED <<sessions, loggedOut>>
             ELSE /\ WriteFree(0)
                  /\ sessions' = DeleteByToken(sessions, token)
                  /\ resp' = r(logoutError(sessions, token),
                               IF SessionByToken(sessions, token) = {} THEN "not found"
                               ELSE "deleted")
                  /\ loggedOut' = IF resp'.err = "" THEN loggedOut \cup {token}
                                  ELSE loggedOut
        /\ UNCHANGED <<users, tx, cfg, now, pc, loc, nextToken, faults,
                       issuedTo, regSecret>>

(* ----------------------------- CurrentUser ---------------------------- *)

sessionExpiredStrict(unixNow, expiresAt) == unixNow > expiresAt

\* The lazy expiry test of currentUserInternal.
sessionExpired(unixNow, expiresAt) == unixNow >= expiresAt

refreshDueStrict(remaining, ttl) == ttl > 0 /\ remaining * 5 < ttl

\* The sliding refresh test: within the last 20% of the TTL.
refreshDue(remaining, ttl) == ttl > 0 /\ remaining * 5 <= ttl

selectMissCookieNever(token) == NoCookie

\* The cookie currentUserInternal answers with when it finds no session:
\* nothing without a token, a cleared cookie when the SELECT has no row.
selectMissCookie(token) == IF token = NoToken THEN NoCookie ELSE clearCookie

\* currentUserInternal up to the SELECT joining sessions and users.
CUSelect(p, token) ==
    LET rows == SessionByToken(sessions, token)
        s == CHOOSE x \in rows : TRUE
        owner == CHOOSE u \in UserById(users, s.user_id) : TRUE
        r(err, cookie) == [Reply("CurrentUser", FALSE, err, 0, <<>>, cookie)
                             EXCEPT !.token = token, !.flag = token \in wasDead,
                                    !.cause = IF err /= "" THEN "store"
                                              ELSE IF token = NoToken THEN "no token"
                                              ELSE "not found"]
    IN  /\ Free(p)
        /\ \E fail \in Fail :
             IF token = NoToken
             THEN resp' = r("", selectMissCookie(token)) /\ UNCHANGED <<pc, loc>>
             ELSE IF fail
             THEN resp' = r("query session", NoCookie) /\ UNCHANGED <<pc, loc>>
             ELSE IF rows = {} \/ UserById(users, s.user_id) = {}
             THEN resp' = r("", selectMissCookie(token)) /\ UNCHANGED <<pc, loc>>
             ELSE /\ resp' = NoResp
                  /\ Goto(p, "cu_now",
                          [NoLoc EXCEPT !.uid = owner.id, !.email = owner.email,
                                        !.token = token, !.exp = s.expires_at,
                                        !.flag = token \in wasDead])
        /\ UNCHANGED <<users, sessions, tx, cfg, now, nextToken, faults,
                       issuedTo, loggedOut, regSecret>>

lazyDeleteErrorIfNone(rows) == IF rows = 0 THEN "delete session" ELSE ""

\* The error of the lazy-expiry DELETE as currentUserInternal returns it:
\* none, the result of the statement is discarded.
lazyDeleteError(rows) == ""

\* The clock reading, the lazy expiry with its DELETE, and the refresh test.
CUNow(p) ==
    LET l == loc[p]
        unixNow == Unix(now)
        ttl == Seconds(cfg.SessionTTL)
        gone == Cardinality(SessionByToken(sessions, l.token))
        r(ok, cookie, cause) ==
            [Reply("CurrentUser", ok, "", IF ok THEN l.uid ELSE 0,
                   IF ok THEN l.email ELSE <<>>, cookie)
               EXCEPT !.token = l.token, !.exp = l.exp, !.nowU = unixNow,
                      !.flag = l.flag, !.cause = cause]
    IN  /\ pc[p] = "cu_now"
        /\ IF sessionExpired(unixNow, l.exp)
           THEN /\ WriteFree(p)
                /\ \E fail \in Fail :
                     sessions' = IF fail THEN sessions
                                 ELSE DeleteByToken(sessions, l.token)
                /\ resp' = [r(FALSE, clearCookie, "expired")
                              EXCEPT !.err = lazyDeleteError(gone), !.rows = gone]
                /\ Done(p)
           ELSE IF refreshDue(l.exp - unixNow, ttl)
           THEN /\ resp' = NoResp
                /\ Goto(p, "cu_update", [l EXCEPT !.nowU = unixNow])
                /\ sessions' = sessions
           ELSE /\ resp' = r(TRUE, NoCookie, "valid")
                /\ Done(p)
                /\ sessions' = sessions
        /\ UNCHANGED <<users, tx, cfg, now, nextToken, faults,
                       issuedTo, loggedOut, regSecret>>

\* UPDATE sessions SET expires_at, the re-issued cookie, and the return.
CUUpdate(p) ==
    LET l == loc[p]
        newExp == l.nowU + Seconds(cfg.SessionTTL)
        r(cookie) == [Reply("CurrentUser", TRUE, "", l.uid, l.email, cookie)
                        EXCEPT !.token = l.token, !.exp = l.exp, !.nowU = l.nowU,
                               !.flag = l.flag, !.cause = "refresh"]
    IN  /\ pc[p] = "cu_update"
        /\ WriteFree(p)
        /\ \E fail \in Fail :
             IF fail
             THEN sessions' = sessions /\ resp' = r(NoCookie)
             ELSE /\ sessions' = ExtendSession(sessions, l.token, newExp)
                  /\ resp' = r(setCookie(l.token, newExp))
        /\ Done(p)
        /\ UNCHANGED <<users, tx, cfg, now, nextToken, faults,
                       issuedTo, loggedOut, regSecret>>

(* ----------------------- Middleware, RequireAuth ---------------------- *)

\* A request context: with or without an identity under the package's key.
NoCtx == [has |-> FALSE, user |-> 0]

withUser(ctx, uid) == [has |-> TRUE, user |-> uid]

fromContext(ctx) == [user |-> IF ctx.has THEN ctx.user ELSE 0, ok |-> ctx.has]

\* The contexts a request can reach a handler with.
Contexts == {NoCtx} \cup {withUser(NoCtx, u) : u \in 1..NumProcs}

\* What a request is answered with: the status, whether the downstream
\* handler ran, and the context it ran with.
httpError(code) == [status |-> code, ran |-> FALSE, ctx |-> NoCtx]

\* The downstream handler: answers 200 and keeps the context it was given.
handler(ctx) == [status |-> 200, ran |-> TRUE, ctx |-> ctx]

requireAuthInternalOpen(ctx) == handler(ctx)

\* requireAuthInternal: 401 unless the context carries an identity.
requireAuthInternal(ctx) ==
    IF ~fromContext(ctx).ok THEN httpError(401) ELSE handler(ctx)

middlewareInternalStrict(res, ctx) ==
    IF res.err /= "" THEN httpError(500)
    ELSE IF res.ok THEN handler(withUser(ctx, res.uid))
    ELSE httpError(401)

\* middlewareInternal on the return of its currentUserInternal call: 500 on
\* an error, else the next handler, with the user attached when there is one.
middlewareInternal(res, ctx) ==
    IF res.err /= "" THEN httpError(500)
    ELSE IF res.ok THEN handler(withUser(ctx, res.uid))
    ELSE handler(ctx)

\* Middleware(RequireAuth(h)): the next handler of the first stage is the
\* second stage.
MiddlewareRequireAuth(res, ctx) ==
    LET m == middlewareInternal(res, ctx)
    IN  IF m.ran THEN requireAuthInternal(m.ctx) ELSE m

(* ------------------- PruneExpiredSessions, RevokeAll ------------------ *)

\* What pruneExpiredSessionsInternal does to the store and returns.
pruneReply(fail, cause) ==
    [Reply("Prune", ~fail, IF fail THEN "store" ELSE "", 0, <<>>, NoCookie)
       EXCEPT !.nowU = Unix(now), !.cause = cause,
              !.rows = IF fail THEN 0
                       ELSE Cardinality(sessions \ DeleteExpired(sessions, Unix(now)))]

PruneExpiredSessions ==
    /\ WriteFree(0)
    /\ \E fail \in Fail :
         /\ sessions' = IF fail THEN sessions ELSE DeleteExpired(sessions, Unix(now))
         /\ resp' = pruneReply(fail, "call")
    /\ UNCHANGED <<users, tx, cfg, now, pc, loc, nextToken, faults,
                   issuedTo, loggedOut, regSecret>>

RevokeAllSessions(uid) ==
    /\ WriteFree(0)
    /\ \E fail \in Fail :
         IF fail
         THEN /\ sessions' = sessions
              /\ resp' = Reply("RevokeAll", FALSE, "store", uid, <<>>, NoCookie)
         ELSE /\ sessions' = DeleteByUser(sessions, uid)
              /\ resp' = Reply("RevokeAll", TRUE, "", uid, <<>>, NoCookie)
    /\ UNCHANGED <<users, tx, cfg, now, pc, loc, nextToken, faults,
                   issuedTo, loggedOut, regSecret>>

(* ------------------------- janitor and Close -------------------------- *)

\* time.Ticker: a tick is buffered in ticker.C unless one already is; the
\* ticker runs on the wall clock, not on the package clock, and is stopped
\* when the janitor returns.
TickerFire ==
    /\ janitor /= "exited"
    /\ ~tickC
    /\ tickC' = TRUE
    /\ UNCHANGED <<users, sessions, tx, cfg, now, pc, loc, nextToken, resp, faults,
                   issuedTo, loggedOut, regSecret,
                   req, tokenCap, janitor, stopCh, closer, dbOpen>>

\* The cases the select of the janitor's loop can take: any case whose
\* channel is ready, with no order among them.
selectCases(tickReady, stopReady) ==
    (IF tickReady THEN {"tick"} ELSE {}) \cup (IF stopReady THEN {"stop"} ELSE {})

stopReadyNever == FALSE

\* A receive from the stop channel is ready once the channel is closed.
stopReady == stopCh = "closed"

\* case <-ticker.C: the janitor takes the buffered tick and starts a sweep.
JanitorTick ==
    /\ janitor = "wait"
    /\ "tick" \in selectCases(tickC, stopReady)
    /\ tickC' = FALSE
    /\ janitor' = "sweep"
    /\ UNCHANGED <<users, sessions, tx, cfg, now, pc, loc, nextToken, resp, faults,
                   issuedTo, loggedOut, regSecret,
                   req, tokenCap, stopCh, closer, dbOpen>>

\* case <-a.stopCh: the janitor returns; the deferred calls stop the ticker
\* and release the wait group.
JanitorStop ==
    /\ janitor = "wait"
    /\ "stop" \in selectCases(tickC, stopReady)
    /\ janitor' = "exited"
    /\ UNCHANGED <<users, sessions, tx, cfg, now, pc, loc, nextToken, resp, faults,
                   issuedTo, loggedOut, regSecret,
                   req, tokenCap, stopCh, tickC, closer, dbOpen>>

afterSweepReturnOnError(failed) == IF failed THEN "exited" ELSE "wait"

\* Where the janitor goes after a sweep: back to the select of its loop,
\* whether or not the sweep returned an error.
afterSweep(failed) == "wait"

\* The sweep: pruneExpiredSessionsInternal, its error only logged.  On a
\* closed store handle the statement fails.
JanitorSweep ==
    /\ janitor = "sweep"
    /\ WriteFree(0)
    /\ \E fail \in Fail :
         LET failed == fail \/ ~dbOpen
         IN  /\ sessions' = IF failed THEN sessions
                            ELSE DeleteExpired(sessions, Unix(now))
             /\ resp' = [pruneReply(failed, "janitor")
                           EXCEPT !.flag = dbOpen,
                                  !.logged = IF failed THEN "janitor prune error" ELSE ""]
             /\ janitor' = afterSweep(failed)
    /\ UNCHANGED <<users, tx, cfg, now, pc, loc, nextToken, faults,
                   issuedTo, loggedOut, regSecret,
                   req, tokenCap, stopCh, tickC, closer, dbOpen>>

\* closeInternal up to wg.Wait: the stop channel is closed.
CloseSignal ==
    /\ closer.at = "idle"
    /\ dbOpen
    /\ stopCh' = "closed"
    /\ closer' = [at |-> "wait", midSweep |-> janitor = "sweep", tick |-> tickC]
    /\ UNCHANGED <<users, sessions, tx, cfg, now, pc, loc, nextToken, resp, faults,
                   issuedTo, loggedOut, regSecret,
                   req, tokenCap, janitor, tickC, dbOpen>>

wgDoneAlways == TRUE

\* wg.Wait returns once the janitor has called wg.Done.
wgDone == janitor = "exited"

\* The return of wg.Wait, db.Close and the return of closeInternal.
CloseDb ==
    /\ closer.at = "wait"
    /\ wgDone
    /\ dbOpen' = FALSE
    /\ closer' = [closer EXCEPT !.at = "done"]
    /\ resp' = [Reply("Close", TRUE, "", 0, <<>>, NoCookie)
                  EXCEPT !.flag = closer.midSweep]
    /\ UNCHANGED <<users, sessions, tx, cfg, now, pc, loc, nextToken, faults,
                   issuedTo, loggedOut, regSecret,
                   req, tokenCap, janitor, stopCh, tickC>>

(* --------------------------- ChangePassword --------------------------- *)

\* The secret the stored hash of a credential verifies, <<>> when there is none.
SecretOf(us, uid) ==
    IF UserById(us, uid) = {} THEN <<>>
    ELSE (CHOOSE u \in UserById(us, uid) : TRUE).hash.secret

\* What ChangePassword answers, with the secret stored and the number of
\* sessions the credential had before the step.
CPReply(l, ok, err) ==
    [Reply("ChangePassword", ok, err, l.uid, <<>>, NoCookie)
       EXCEPT !.pw = l.hash.secret, !.oldpw = SecretOf(users, l.uid),
              !.exp = Cardinality({s \in sessions : s.user_id = l.uid})]

\* changePasswordInternal up to BeginTx: policy, hash.
CPStart(p, uid, pw) ==
    LET policy == validatePasswordPolicy(pw, cfg.MinPasswordLength,
                                         cfg.RequireStrongPasswords)
        l == [NoLoc EXCEPT !.uid = uid, !.hash = GenerateFromPassword(pw, cfg.BcryptCost)]
    IN  /\ Free(p)
        /\ \E fail \in Fail :
             IF policy /= ""
             THEN resp' = CPReply(l, FALSE, policy) /\ UNCHANGED <<pc, loc>>
             ELSE IF fail
             THEN resp' = CPReply(l, FALSE, "begin") /\ UNCHANGED <<pc, loc>>
             ELSE resp' = NoResp /\ Goto(p, "cp_update", l)
        /\ UNCHANGED <<users, sessions, tx, cfg, now, nextToken, faults,
                       issuedTo, loggedOut, regSecret>>

cpUpdateAutocommit(us, uid, hash) == UpdateHash(us, uid, hash)

\* The committed rows after tx.ExecContext(UPDATE users): unchanged, the
\* statement writes inside the transaction.
cpUpdateCommitted(us, uid, hash) == us

\* UPDATE users SET password_hash inside the transaction.
CPUpdate(p) ==
    LET l == loc[p]
    IN  /\ pc[p] = "cp_update"
        /\ WriteFree(p)
        /\ \E fail \in Fail :
             IF fail
             THEN /\ tx' = NoTx
                  /\ users' = users
                  /\ resp' = CPReply(l, FALSE, "update user")
                  /\ Done(p)
             ELSE /\ tx' = [owner |-> p, users |-> UpdateHash(users, l.uid, l.hash),
                            sessions |-> sessions]
                  /\ users' = cpUpdateCommitted(users, l.uid, l.hash)
                  /\ resp' = NoResp
                  /\ Goto(p, "cp_delete", l)
        /\ UNCHANGED <<sessions, cfg, now, nextToken, faults,
                       issuedTo, loggedOut, regSecret>>

\* DELETE FROM sessions WHERE user_id inside the transaction.
CPDelete(p) ==
    LET l == loc[p]
    IN  /\ pc[p] = "cp_delete"
        /\ \E fail \in Fail :
             IF fail
             THEN /\ tx' = NoTx
                  /\ resp' = CPReply(l, FALSE, "revoke sessions")
                  /\ Done(p)
             ELSE /\ tx' = [tx EXCEPT !.sessions = DeleteByUser(tx.sessions, l.uid)]
                  /\ resp' = NoResp
                  /\ Goto(p, "cp_commit", l)
        /\ UNCHANGED <<users, sessions, cfg, now, nextToken, faults,
                       issuedTo, loggedOut, regSecret>>

commitSessionsKept(t) == sessions

\* The sessions table after tx.Commit.
commitSessions(t) == t.sessions

\* tx.Commit, or the deferred rollback when it fails.
CPCommit(p) ==
    LET l == loc[p]
        b == IF UserById(users, l.uid) = {} THEN 0
             ELSE BaseOf((CHOOSE u \in UserById(users, l.uid) : TRUE).email)
    IN  /\ pc[p] = "cp_commit"
        /\ \E fail \in Fail :
             IF fail
             THEN /\ resp' = CPReply(l, FALSE, "commit")
                  /\ UNCHANGED <<users, sessions, regSecret>>
             ELSE /\ users' = tx.users
                  /\ sessions' = commitSessions(tx)
                  /\ resp' = CPReply(l, TRUE, "")
                  /\ regSecret' = IF b \in DOMAIN Bases
                                  THEN [regSecret EXCEPT ![b] = <<>>]
                                  ELSE regSecret
        /\ tx' = NoTx
        /\ Done(p)
        /\ UNCHANGED <<cfg, now, nextToken, faults, issuedTo, loggedOut>>

(* -------------------------------- runs -------------------------------- *)

\* The spellings of the identities requests are made with, each with the
\* index of the identity it spells (0 for a malformed one).
RawEmails ==
    {<<Decorate(b, v, v), b>> : b \in DOMAIN Bases, v \in BOOLEAN}
        \cup {<<e, 0>> : e \in BadEmails}

\* History: a token is dead once its session is deleted or the clock has
\* reached the expires_at stored for it.
Dead(ss, t, next) ==
    {k \in 1..(next - 1) :
        \/ SessionByToken(ss, k) = {}
        \/ \E s \in SessionByToken(ss, k) : s.expires_at <= Unix(t)}

Ghost == wasDead' = wasDead \cup Dead(sessions', now', nextToken')

\* No step is taken while a response is pending.
Ready == resp = NoResp

\* A request leaves the run's token supply, the janitor and Close alone; the
\* request SameOrigin is asked about is fixed for the run.
Still == UNCHANGED <<tokenCap, janitor, stopCh, tickC, closer, dbOpen, req>>

\* The caller takes the response of the step just taken; no step is taken
\* while a response is pending.
Deliver ==
    /\ resp /= NoResp
    /\ resp' = NoResp
    /\ UNCHANGED <<users, sessions, tx, cfg, now, pc, loc, nextToken, faults,
                   issuedTo, wasDead, loggedOut, regSecret>>
    /\ Still

\* The session lifecycle: one identity registers and logs in, requests
\* resolve, refresh, log out, revoke and prune its sessions as the clock runs.
Next ==
    \/ Ready /\ Tick /\ Ghost /\ Still
    \/ Ready /\ (\E p \in Procs : RegisterStart(p, Bases[1], 1, Pw1)) /\ Ghost /\ Still
    \/ Ready /\ (\E p \in Procs : RegisterInsert(p)) /\ Ghost /\ Still
    \/ Ready /\ (\E p \in Procs : RegisterCommit(p)) /\ Ghost /\ Still
    \/ Ready /\ (\E p \in Procs : LoginSelect(p, Bases[1], 1, Pw1)) /\ Ghost /\ Still
    \/ Ready /\ (\E p \in Procs : LoginSession(p)) /\ Ghost /\ Still
    \/ Ready /\ (\E t \in Presented : Logout(t)) /\ Ghost /\ Still
    \/ Ready /\ (\E p \in Procs, t \in Presented : CUSelect(p, t)) /\ Ghost /\ Still
    \/ Ready /\ (\E p \in Procs : CUNow(p)) /\ Ghost /\ Still
    \/ Ready /\ (\E p \in Procs : CUUpdate(p)) /\ Ghost /\ Still
    \/ Ready /\ PruneExpiredSessions /\ Ghost /\ Still
    \/ Ready /\ RevokeAllSessions(1) /\ Ghost /\ Still
    \/ Deliver

Spec == Init /\ [][Next]_vars

SpecF == InitF /\ [][Next]_vars

\* Requests through the access gate over a store that may fail any
\* statement: one identity registers and logs in, requests resolve and
\* refresh its session as the clock runs.
NextGate ==
    \/ Ready /\ Tick /\ Ghost /\ Still
    \/ Ready /\ (\E p \in Procs : RegisterStart(p, Bases[1], 1, Pw1)) /\ Ghost /\ Still
    \/ Ready /\ (\E p \in Procs : RegisterInsert(p)) /\ Ghost /\ Still
    \/ Ready /\ (\E p \in Procs : RegisterCommit(p)) /\ Ghost /\ Still
    \/ Ready /\ (\E p \in Procs : LoginSelect(p, Bases[1], 1, Pw1)) /\ Ghost /\ Still
    \/ Ready /\ (\E p \in Procs : LoginSession(p)) /\ Ghost /\ Still
    \/ Ready /\ (\E p \in Procs, t \in Presented : CUSelect(p, t)) /\ Ghost /\ Still
    \/ Ready /\ (\E p \in Procs : CUNow(p)) /\ Ghost /\ Still
    \/ Ready /\ (\E p \in Procs : CUUpdate(p)) /\ Ghost /\ Still
    \/ Deliver

SpecGate == InitF /\ [][NextGate]_vars

\* The configured password policies: the default minimum length or one of
\* three characters, with and without the strength requirement.
InitPolicy ==
    /\ tokenCap = MaxTokens
    /\ req = NoReq
    /\ \E strong \in BOOLEAN, minLen \in {0, Len(PwThree)} :
         InitWith([GivenConfig EXCEPT !.RequireStrongPasswords = strong,
                                      !.MinPasswordLength = minLen], FALSE)

PolicyEmails == {<<e, 0>> : e \in BadEmails} \cup {<<Decorate(1, FALSE, v), 1>> : v \in BOOLEAN}

\* Register with well-formed and malformed identities and secrets.
NextPolicy ==
    \/ Ready /\ (\E p \in Procs, e \in PolicyEmails, pw \in PolicyPasswords : RegisterStart(p, e[1], e[2], pw)) /\ Ghost /\ Still
    \/ Ready /\ (\E p \in Procs : RegisterInsert(p)) /\ Ghost /\ Still
    \/ Ready /\ (\E p \in Procs : RegisterCommit(p)) /\ Ghost /\ Still
    \/ Deliver

SpecPolicy == InitPolicy /\ [][NextPolicy]_vars

\* SameOrigin asked about each request.
InitOrigin == InitWith(GivenConfig, FALSE) /\ tokenCap = MaxTokens /\ req \in Requests

SameOriginCall ==
    /\ resp' = Reply("SameOrigin", SameOrigin(req), "", 0, <<>>, NoCookie)
    /\ UNCHANGED <<users, sessions, tx, cfg, now, pc, loc, nextToken, faults,
                   issuedTo, loggedOut, regSecret>>

NextOrigin ==
    \/ Ready /\ SameOriginCall /\ Ghost /\ Still
    \/ Deliver

SpecOrigin == InitOrigin /\ [][NextOrigin]_vars

\* The session TTLs New is given: unset, half a second, whole seconds.
ConfigTTLs == {0, TicksPerSecond \div 2, TTLSeconds * TicksPerSecond}

InitLogin ==
    /\ tokenCap = MaxTokens + 1
    /\ req = NoReq
    /\ \E ttl \in ConfigTTLs : InitWith([GivenConfig EXCEPT !.SessionTTL = ttl], FALSE)

\* Logins at any clock reading: one identity registers and logs in, more
\* than once, while the clock runs between whole seconds.
NextLogin ==
    \/ Ready /\ TickFine /\ Ghost /\ Still
    \/ Ready /\ (\E p \in Procs : RegisterStart(p, Bases[1], 1, Pw1)) /\ Ghost /\ Still
    \/ Ready /\ (\E p \in Procs : RegisterInsert(p)) /\ Ghost /\ Still
    \/ Ready /\ (\E p \in Procs : RegisterCommit(p)) /\ Ghost /\ Still
    \/ Ready /\ (\E p \in Procs : LoginSelect(p, Bases[1], 1, Pw1)) /\ Ghost /\ Still
    \/ Ready /\ (\E p \in Procs : LoginSession(p)) /\ Ghost /\ Still
    \/ Deliver

SpecLogin == InitLogin /\ [][NextLogin]_vars

\* New returned an API.
Built == dbOpen /\ janitor /= "none"

\* The hashing cost at run time: New with any cost, then one identity
\* registers and logs in, with the right secret and a wrong one, while
\* SetBcryptCost replaces the cost; the clock stands still.
NextCost ==
    \/ Ready /\ Built /\ (\E cost \in CostInputs : SetBcryptCost(cost)) /\ Ghost /\ Still
    \/ Ready /\ Built /\ (\E p \in Procs : RegisterStart(p, Bases[1], 1, Pw1)) /\ Ghost /\ Still
    \/ Ready /\ Built /\ (\E p \in Procs : RegisterInsert(p)) /\ Ghost /\ Still
    \/ Ready /\ Built /\ (\E p \in Procs : RegisterCommit(p)) /\ Ghost /\ Still
    \/ Ready /\ Built /\ (\E p \in Procs, pw \in GoodPasswords : LoginSelect(p, Bases[1], 1, pw)) /\ Ghost /\ Still
    \/ Ready /\ Built /\ (\E p \in Procs : LoginRehash(p)) /\ Ghost /\ Still
    \/ Ready /\ Built /\ (\E p \in Procs : LoginUpgrade(p)) /\ Ghost /\ Still
    \/ Ready /\ Built /\ (\E p \in Procs : LoginSession(p)) /\ Ghost /\ Still
    \/ Deliver

SpecCost == InitCost /\ [][NextCost]_vars

\* The opportunistic upgrade over a store and a random source that may
\* fail: one identity registers, the cost is raised, and it logs in.
NextUpgrade ==
    \/ Ready /\ SetBcryptCost(BcryptMinCost + 1) /\ Ghost /\ Still
    \/ Ready /\ (\E p \in Procs : RegisterStart(p, Bases[1], 1, Pw1)) /\ Ghost /\ Still
    \/ Ready /\ (\E p \in Procs : RegisterInsert(p)) /\ Ghost /\ Still
    \/ Ready /\ (\E p \in Procs : RegisterCommit(p)) /\ Ghost /\ Still
    \/ Ready /\ (\E p \in Procs : LoginSelect(p, Bases[1], 1, Pw1)) /\ Ghost /\ Still
    \/ Ready /\ (\E p \in Procs : LoginRehash(p)) /\ Ghost /\ Still
    \/ Ready /\ (\E p \in Procs : LoginUpgrade(p)) /\ Ghost /\ Still
    \/ Ready /\ (\E p \in Procs : LoginSession(p)) /\ Ghost /\ Still
    \/ Deliver

SpecUpgradeF == InitF /\ [][NextUpgrade]_vars

\* A refresh window two seconds wide: the TTL is twice the usual one, one
\* identity registers and logs in, and requests resolve its session while
\* the clock runs through the window.
InitRefresh ==
    /\ tokenCap = MaxTokens
    /\ req = NoReq
    /\ InitWith([GivenConfig EXCEPT !.SessionTTL = 2 * TTLSeconds * TicksPerSecond], FALSE)

NextRefresh ==
    \/ Ready /\ TickLong /\ Ghost /\ Still
    \/ Ready /\ (\E p \in Procs : RegisterStart(p, Bases[1], 1, Pw1)) /\ Ghost /\ Still
    \/ Ready /\ (\E p \in Procs : RegisterInsert(p)) /\ Ghost /\ Still
    \/ Ready /\ (\E p \in Procs : RegisterCommit(p)) /\ Ghost /\ Still
    \/ Ready /\ (\E p \in Procs : LoginSelect(p, Bases[1], 1, Pw1)) /\ Ghost /\ Still
    \/ Ready /\ (\E p \in Procs : LoginSession(p)) /\ Ghost /\ Still
    \/ Ready /\ (\E p \in Procs, t \in DOMAIN issuedTo : CUSelect(p, t)) /\ Ghost /\ Still
    \/ Ready /\ (\E p \in Procs : CUNow(p)) /\ Ghost /\ Still
    \/ Ready /\ (\E p \in Procs : CUUpdate(p)) /\ Ghost /\ Still
    \/ Deliver

SpecRefresh == InitRefresh /\ [][NextRefresh]_vars

\* The opportunistic upgrade beside password changes: one identity
\* registers, the cost is raised, it logs in and changes its password.
NextUpgradeChange ==
    \/ Ready /\ SetBcryptCost(BcryptMinCost + 1) /\ Ghost /\ Still
    \/ Ready /\ (\E p \in Procs : RegisterStart(p, Bases[1], 1, Pw1)) /\ Ghost /\ Still
    \/ Ready /\ (\E p \in Procs : RegisterInsert(p)) /\ Ghost /\ Still
    \/ Ready /\ (\E p \in Procs : RegisterCommit(p)) /\ Ghost /\ Still
    \/ Ready /\ (\E p \in Procs, pw \in GoodPasswords : LoginSelect(p, Bases[1], 1, pw)) /\ Ghost /\ Still
    \/ Ready /\ (\E p \in Procs : LoginRehash(p)) /\ Ghost /\ Still
    \/ Ready /\ (\E p \in Procs : LoginUpgrade(p)) /\ Ghost /\ Still
    \/ Ready /\ (\E p \in Procs : LoginSession(p)) /\ Ghost /\ Still
    \/ Ready /\ (\E p \in Procs, pw \in GoodPasswords : CPStart(p, 1, pw)) /\ Ghost /\ Still
    \/ Ready /\ (\E p \in Procs : CPUpdate(p)) /\ Ghost /\ Still
    \/ Ready /\ (\E p \in Procs : CPDelete(p)) /\ Ghost /\ Still
    \/ Ready /\ (\E p \in Procs : CPCommit(p)) /\ Ghost /\ Still
    \/ Deliver

SpecUpgradeChange == Init /\ [][NextUpgradeChange]_vars

\* The same requests over a store that answers every statement.
SpecResolve == Init /\ [][NextGate]_vars

\* The spellings and secrets the credential lifecycle is driven with.
CredEmails == {<<Decorate(1, v, v), 1>> : v \in BOOLEAN} \cup {<<<<"a", "@", "b">>, 0>>}

\* The credential lifecycle: an identity registers under any spelling, logs
\* in, and changes its password; the clock stands still.
NextCred ==
    \/ Ready /\ (\E p \in Procs, e \in CredEmails, pw \in Passwords : RegisterStart(p, e[1], e[2], pw)) /\ Ghost /\ Still
    \/ Ready /\ (\E p \in Procs : RegisterInsert(p)) /\ Ghost /\ Still
    \/ Ready /\ (\E p \in Procs : RegisterCommit(p)) /\ Ghost /\ Still
    \/ Ready /\ (\E p \in Procs, e \in CredEmails, pw \in Passwords : LoginSelect(p, e[1], e[2], pw)) /\ Ghost /\ Still
    \/ Ready /\ (\E p \in Procs : LoginSession(p)) /\ Ghost /\ Still
    \/ Ready /\ (\E t \in Presented : Logout(t)) /\ Ghost /\ Still
    \/ Ready /\ (\E p \in Procs, pw \in Passwords : CPStart(p, 1, pw)) /\ Ghost /\ Still
    \/ Ready /\ (\E p \in Procs : CPUpdate(p)) /\ Ghost /\ Still
    \/ Ready /\ (\E p \in Procs : CPDelete(p)) /\ Ghost /\ Still
    \/ Ready /\ (\E p \in Procs : CPCommit(p)) /\ Ghost /\ Still
    \/ Deliver

SpecCred == Init /\ [][NextCred]_vars

SpecCredF == InitF /\ [][NextCred]_vars

\* The credential lifecycle over a store that may fail any statement: one
\* identity registers, logs in, logs out and changes its password.
NextFault ==
    \/ Ready /\ (\E p \in Procs : RegisterStart(p, Bases[1], 1, Pw1)) /\ Ghost /\ Still
    \/ Ready /\ (\E p \in Procs : RegisterInsert(p)) /\ Ghost /\ Still
    \/ Ready /\ (\E p \in Procs : RegisterCommit(p)) /\ Ghost /\ Still
    \/ Ready /\ (\E p \in Procs, pw \in GoodPasswords : LoginSelect(p, Bases[1], 1, pw)) /\ Ghost /\ Still
    \/ Ready /\ (\E p \in Procs : LoginSession(p)) /\ Ghost /\ Still
    \/ Ready /\ (\E t \in Presented : Logout(t)) /\ Ghost /\ Still
    \/ Ready /\ (\E p \in Procs, pw \in GoodPasswords : CPStart(p, 1, pw)) /\ Ghost /\ Still
    \/ Ready /\ (\E p \in Procs : CPUpdate(p)) /\ Ghost /\ Still
    \/ Ready /\ (\E p \in Procs : CPDelete(p)) /\ Ghost /\ Still
    \/ Ready /\ (\E p \in Procs : CPCommit(p)) /\ Ghost /\ Still
    \/ Deliver

SpecFault == InitF /\ [][NextFault]_vars

\* Several sessions at once: two identities register and log in, requests
\* resolve and log out their sessions; the clock stands still.
InitMulti == InitWith(GivenConfig, FALSE) /\ tokenCap = MaxTokens + 1 /\ req = NoReq

NextMulti ==
    \/ Ready /\ (\E p \in Procs, b \in DOMAIN Bases : RegisterStart(p, Bases[b], b, Pw1)) /\ Ghost /\ Still
    \/ Ready /\ (\E p \in Procs : RegisterInsert(p)) /\ Ghost /\ Still
    \/ Ready /\ (\E p \in Procs : RegisterCommit(p)) /\ Ghost /\ Still
    \/ Ready /\ (\E p \in Procs, b \in DOMAIN Bases : LoginSelect(p, Bases[b], b, Pw1)) /\ Ghost /\ Still
    \/ Ready /\ (\E p \in Procs : LoginSession(p)) /\ Ghost /\ Still
    \/ Ready /\ (\E t \in Presented : Logout(t)) /\ Ghost /\ Still
    \/ Ready /\ (\E p \in Procs, t \in Presented : CUSelect(p, t)) /\ Ghost /\ Still
    \/ Ready /\ (\E p \in Procs : CUNow(p)) /\ Ghost /\ Still
    \/ Deliver

SpecMulti == InitMulti /\ [][NextMulti]_vars

\* Revocation beside other credentials: two identities register and log in,
\* either has its sessions revoked, requests resolve the tokens; the clock
\* stands still.
NextRevoke ==
    \/ Ready /\ (\E p \in Procs, b \in DOMAIN Bases : RegisterStart(p, Bases[b], b, Pw1)) /\ Ghost /\ Still
    \/ Ready /\ (\E p \in Procs : RegisterInsert(p)) /\ Ghost /\ Still
    \/ Ready /\ (\E p \in Procs : RegisterCommit(p)) /\ Ghost /\ Still
    \/ Ready /\ (\E p \in Procs, b \in DOMAIN Bases : LoginSelect(p, Bases[b], b, Pw1)) /\ Ghost /\ Still
    \/ Ready /\ (\E p \in Procs : LoginSession(p)) /\ Ghost /\ Still
    \/ Ready /\ (\E uid \in UserIds : RevokeAllSessions(uid)) /\ Ghost /\ Still
    \/ Ready /\ (\E p \in Procs, t \in Presented : CUSelect(p, t)) /\ Ghost /\ Still
    \/ Ready /\ (\E p \in Procs : CUNow(p)) /\ Ghost /\ Still
    \/ Deliver

SpecRevoke == InitMulti /\ [][NextRevoke]_vars

\* The janitor and Close beside the session lifecycle: requests are made
\* while the API is open, and Close is called when none is in flight.
Open == closer.at = "idle"

Quiet == \A p \in Procs : Idle(p)

NextJan ==
    \/ Ready /\ Open /\ Tick /\ Ghost /\ Still
    \/ Ready /\ Open /\ (\E p \in Procs : RegisterStart(p, Bases[1], 1, Pw1)) /\ Ghost /\ Still
    \/ Ready /\ Open /\ (\E p \in Procs : RegisterInsert(p)) /\ Ghost /\ Still
    \/ Ready /\ Open /\ (\E p \in Procs : RegisterCommit(p)) /\ Ghost /\ Still
    \/ Ready /\ Open /\ (\E p \in Procs : LoginSelect(p, Bases[1], 1, Pw1)) /\ Ghost /\ Still
    \/ Ready /\ Open /\ (\E p \in Procs : LoginSession(p)) /\ Ghost /\ Still
    \/ Ready /\ Open /\ (\E p \in Procs, t \in Presented : CUSelect(p, t)) /\ Ghost /\ Still
    \/ Ready /\ Open /\ (\E p \in Procs : CUNow(p)) /\ Ghost /\ Still
    \/ Ready /\ Open /\ (\E p \in Procs : CUUpdate(p)) /\ Ghost /\ Still
    \/ Ready /\ Open /\ PruneExpiredSessions /\ Ghost /\ Still
    \/ Ready /\ TickerFire /\ Ghost
    \/ Ready /\ JanitorTick /\ Ghost
    \/ Ready /\ JanitorStop /\ Ghost
    \/ Ready /\ JanitorSweep /\ Ghost
    \/ Ready /\ Quiet /\ CloseSignal /\ Ghost
    \/ Ready /\ CloseDb /\ Ghost
    \/ Deliver

SpecJan == Init /\ [][NextJan]_vars

\* Scheduling: a pending response is taken; the ticker keeps firing; the
\* janitor goroutine, a call in flight and Close take their next step when
\* they can; the select of the janitor takes each ready case again and again.
JanFair ==
    /\ WF_vars(Deliver)
    /\ SF_vars(Ready /\ TickerFire /\ Ghost)
    /\ SF_vars(Ready /\ JanitorTick /\ Ghost)
    /\ SF_vars(Ready /\ JanitorStop /\ Ghost)
    /\ SF_vars(Ready /\ JanitorSweep /\ Ghost)
    /\ SF_vars(Ready /\ CloseDb /\ Ghost)
    /\ SF_vars(Ready /\ Open /\ (\E p \in Procs : RegisterInsert(p)) /\ Ghost /\ Still)
    /\ SF_vars(Ready /\ Open /\ (\E p \in Procs : RegisterCommit(p)) /\ Ghost /\ Still)

SpecJanFair == Init /\ [][NextJan]_vars /\ JanFair

\* Shutdown beside a running janitor: one identity registers and logs in,
\* the clock runs, the janitor sweeps, and Close is called.
NextClose ==
    \/ Ready /\ Open /\ Tick /\ Ghost /\ Still
    \/ Ready /\ Open /\ (\E p \in Procs : RegisterStart(p, Bases[1], 1, Pw1)) /\ Ghost /\ Still
    \/ Ready /\ Open /\ (\E p \in Procs : RegisterInsert(p)) /\ Ghost /\ Still
    \/ Ready /\ Open /\ (\E p \in Procs : RegisterCommit(p)) /\ Ghost /\ Still
    \/ Ready /\ Open /\ (\E p \in Procs : LoginSelect(p, Bases[1], 1, Pw1)) /\ Ghost /\ Still
    \/ Ready /\ Open /\ (\E p \in Procs : LoginSession(p)) /\ Ghost /\ Still
    \/ Ready /\ TickerFire /\ Ghost
    \/ Ready /\ JanitorTick /\ Ghost
    \/ Ready /\ JanitorStop /\ Ghost
    \/ Ready /\ JanitorSweep /\ Ghost
    \/ Ready /\ Quiet /\ CloseSignal /\ Ghost
    \/ Ready /\ CloseDb /\ Ghost
    \/ Deliver

SpecCloseFair == Init /\ [][NextClose]_vars /\ JanFair

\* Scheduling of the janitor's loop alone: a pending response is taken, the
\* ticker keeps firing, and the select takes a buffered tick again and again.
SweepFair ==
    /\ WF_vars(Deliver)
    /\ SF_vars(Ready /\ TickerFire /\ Ghost)
    /\ SF_vars(Ready /\ JanitorTick /\ Ghost)

\* The janitor over a store that may fail any statement.
SpecSweepFair == InitF /\ [][NextClose]_vars /\ SweepFair

\* Two credentials over the whole life of their sessions: both register and
\* log in, requests resolve and refresh the sessions as the clock runs, log
\* them out, and either credential changes its password.  One call of several
\* steps is in flight at a time; the clock and Logout run beside it.
NextOwner ==
    \/ Ready /\ Tick /\ Ghost /\ Still
    \/ Ready /\ Quiet /\ (\E p \in Procs, b \in DOMAIN Bases : RegisterStart(p, Bases[b], b, Pw1)) /\ Ghost /\ Still
    \/ Ready /\ (\E p \in Procs : RegisterInsert(p)) /\ Ghost /\ Still
    \/ Ready /\ (\E p \in Procs : RegisterCommit(p)) /\ Ghost /\ Still
    \/ Ready /\ Quiet /\ (\E p \in Procs, b \in DOMAIN Bases : LoginSelect(p, Bases[b], b, Pw1)) /\ Ghost /\ Still
    \/ Ready /\ (\E p \in Procs : LoginSession(p)) /\ Ghost /\ Still
    \/ Ready /\ (\E t \in DOMAIN issuedTo : Logout(t)) /\ Ghost /\ Still
    \/ Ready /\ Quiet /\ (\E p \in Procs, t \in DOMAIN issuedTo : CUSelect(p, t)) /\ Ghost /\ Still
    \/ Ready /\ (\E p \in Procs : CUNow(p)) /\ Ghost /\ Still
    \/ Ready /\ (\E p \in Procs : CUUpdate(p)) /\ Ghost /\ Still
    \/ Ready /\ Quiet /\ (\E p \in Procs, u \in users : CPStart(p, u.id, Pw1)) /\ Ghost /\ Still
    \/ Ready /\ (\E p \in Procs : CPUpdate(p)) /\ Ghost /\ Still
    \/ Ready /\ (\E p \in Procs : CPDelete(p)) /\ Ghost /\ Still
    \/ Ready /\ (\E p \in Procs : CPCommit(p)) /\ Ghost /\ Still
    \/ Deliver

SpecOwner == Init /\ [][NextOwner]_vars

\* Pruning among several sessions: one identity logs in at different clock
\* readings and the expired sessions are pruned.
NextPrune ==
    \/ Ready /\ Tick /\ Ghost /\ Still
    \/ Ready /\ (\E p \in Procs : RegisterStart(p, Bases[1], 1, Pw1)) /\ Ghost /\ Still
    \/ Ready /\ (\E p \in Procs : RegisterInsert(p)) /\ Ghost /\ Still
    \/ Ready /\ (\E p \in Procs : RegisterCommit(p)) /\ Ghost /\ Still
    \/ Ready /\ (\E p \in Procs : LoginSelect(p, Bases[1], 1, Pw1)) /\ Ghost /\ Still
    \/ Ready /\ (\E p \in Procs : LoginSession(p)) /\ Ghost /\ Still
    \/ Ready /\ PruneExpiredSessions /\ Ghost /\ Still
    \/ Deliver

SpecPrune == InitMulti /\ [][NextPrune]_vars

(* ------------------------------- claims ------------------------------- *)

RowsOf(ss, uid) == {s \in ss : s.user_id = uid}

EmailOf(us, uid) == (CHOOSE u \in UserById(us, uid) : TRUE).email

\* C1: a CurrentUser call that read a session row with expiry E and then the
\* clock: when now < E it returns the identity the token was issued to, with
\* ok and no error; when now >= E it returns no identity and no error, clears
\* the cookie, and no session row with the token is left in the store.
C1_ExpiryBoundary ==
    (resp.op = "CurrentUser" /\ resp.cause \in {"valid", "refresh", "expired"}) =>
        IF resp.nowU < resp.exp
        THEN /\ resp.ok
             /\ resp.err = ""
             /\ resp.uid = issuedTo[resp.token]
        ELSE /\ ~resp.ok
             /\ resp.err = ""
             /\ resp.uid = 0
             /\ resp.cookie = clearCookie
             /\ SessionByToken(sessions, resp.token) = {}

\* A session resolved at exactly its expiry second was dropped.
C1_Witness ==
    /\ resp.op = "CurrentUser"
    /\ resp.cause = "expired"
    /\ resp.nowU = resp.exp
    /\ resp.token \in DOMAIN issuedTo

\* C2: a CurrentUser call that returns the identity, having read expiry E at
\* clock reading now, with T the whole seconds of the TTL: when (E - now) * 5
\* <= T the step sets the stored expires_at of the token's row to now + T and
\* re-issues the same token with expiry now + T; when (E - now) * 5 > T the
\* step leaves the sessions table unchanged and issues no cookie.
C2_SlidingRefresh ==
    [][(resp = NoResp /\ resp'.op = "CurrentUser" /\ resp'.ok) =>
        LET T == Seconds(cfg.SessionTTL)
            remaining == resp'.exp - resp'.nowU
        IN  IF remaining * 5 <= T
            THEN /\ \A r \in SessionByToken(sessions', resp'.token) :
                        r.expires_at = resp'.nowU + T
                 /\ SessionByToken(sessions, resp'.token) /= {}
                        => SessionByToken(sessions', resp'.token) /= {}
                 /\ \A r \in sessions' : r.token /= resp'.token => r \in sessions
                 /\ resp'.cookie.kind = "set"
                 /\ resp'.cookie.value = resp'.token
                 /\ resp'.cookie.expires = resp'.nowU + T
            ELSE /\ sessions' = sessions
                 /\ resp'.cookie = NoCookie]_vars

\* A refresh at the boundary (E - now) * 5 = T moved the stored expiry.
C2_Witness ==
    /\ resp.op = "CurrentUser"
    /\ resp.ok
    /\ (resp.exp - resp.nowU) * 5 = Seconds(cfg.SessionTTL)
    /\ \E r \in SessionByToken(sessions, resp.token) :
          r.expires_at = resp.nowU + Seconds(cfg.SessionTTL) /\ r.expires_at > resp.exp

\* C3 as stated: after a successful ChangePassword on an existing credential
\* no session references it, a login with the old secret fails and a login
\* with the new secret succeeds.
C3_Original ==
    (resp.op = "ChangePassword" /\ resp.ok /\ UserById(users, resp.uid) /= {}) =>
        /\ RowsOf(sessions, resp.uid) = {}
        /\ loginCheck(users, EmailOf(users, resp.uid), resp.oldpw) = "wrong secret"
        /\ loginCheck(users, EmailOf(users, resp.uid), resp.pw) = "ok"

\* C3: after a successful ChangePassword on an existing credential no session
\* references it, a login with the new secret succeeds, and a login with the
\* old secret fails whenever the old secret differs from the new one.
C3_PasswordChanged ==
    (resp.op = "ChangePassword" /\ resp.ok /\ UserById(users, resp.uid) /= {}) =>
        /\ RowsOf(sessions, resp.uid) = {}
        /\ resp.oldpw /= resp.pw =>
              loginCheck(users, EmailOf(users, resp.uid), resp.oldpw) = "wrong secret"
        /\ loginCheck(users, EmailOf(users, resp.uid), resp.pw) = "ok"

\* A password change to a different secret revoked at least one session.
C3_Witness ==
    /\ resp.op = "ChangePassword"
    /\ resp.ok
    /\ UserById(users, resp.uid) /= {}
    /\ resp.oldpw /= resp.pw
    /\ resp.exp >= 1

\* C4: every step of a ChangePassword transaction either leaves the committed
\* users and sessions tables as they were, or is the successful commit, which
\* installs the new hash and deletes the credential's sessions together; a
\* step that ends the call with an error leaves both tables as they were.
C4_Atomic ==
    [][\A p \in Procs :
        (pc[p] \in {"cp_update", "cp_delete", "cp_commit"} /\ pc'[p] /= pc[p]) =>
            IF pc'[p] = "idle" /\ resp'.ok
            THEN /\ pc[p] = "cp_commit"
                 /\ users' = UpdateHash(users, loc[p].uid, loc[p].hash)
                 /\ sessions' = DeleteByUser(sessions, loc[p].uid)
            ELSE /\ users' = users
                 /\ sessions' = sessions
                 /\ pc'[p] = "idle" => resp'.err /= ""]_vars

\* The session deletion failed after the hash update had been staged: the
\* old hash and the sessions are both still there.
C4_Witness ==
    /\ resp.op = "ChangePassword"
    /\ resp.err = "revoke sessions"
    /\ RowsOf(sessions, resp.uid) /= {}
    /\ resp.oldpw /= resp.pw
    /\ SecretOf(users, resp.uid) = resp.oldpw

\* C5: a CurrentUser call that starts after the token's session was deleted or
\* the clock reached its stored expires_at never returns an identity.
C5_NoResurrection ==
    ~(resp.op = "CurrentUser" /\ resp.ok /\ resp.flag)

\* C6: a Login that fails for an unknown identity and one that fails for a
\* wrong secret answer alike: the same error, the same delay, no identity,
\* no cookie.
C6_Indistinguishable ==
    (resp.op = "Login" /\ resp.cause \in {"no user", "wrong secret"}) =>
        /\ ~resp.ok
        /\ resp.err = "invalid credentials"
        /\ resp.delayMs = FailedLoginDelayMs
        /\ resp.uid = 0
        /\ resp.email = <<>>
        /\ resp.cookie = NoCookie

\* A login failed for an unknown identity while a credential is registered.
C6_Witness ==
    /\ resp.op = "Login"
    /\ resp.cause = "no user"
    /\ users /= {}

\* C7: a successful Register returns the lower-cased, trimmed identity; a
\* Login under any spelling of a registered identity, with the secret of its
\* Register, succeeds and returns the lower-cased, trimmed identity.
C7_RegisterThenLogin ==
    /\ (resp.op = "Register" /\ resp.ok) =>
          /\ resp.base \in DOMAIN Bases
          /\ resp.email = Bases[resp.base]
    /\ (resp.op = "Login" /\ resp.flag) =>
          /\ resp.ok
          /\ resp.email = Bases[resp.base]
          /\ resp.cookie.kind = "set"

\* A login spelled otherwise than the stored key succeeded.
C7_Witness ==
    /\ resp.op = "Login"
    /\ resp.flag
    /\ resp.ok
    /\ resp.raw /= resp.email

\* C8: no two credentials share an identity, every stored identity is in
\* lower-cased, trimmed form, and a Register with a well-formed identity and
\* an acceptable secret fails only with "email already registered".
C8_UniqueIdentity ==
    /\ \A u1, u2 \in users : u1.email = u2.email => u1 = u2
    /\ \A u \in users : BaseOf(u.email) /= 0
    /\ (resp.op = "Register" /\ ~resp.ok /\ resp.base /= 0
            /\ resp.pw \in GoodPasswords) =>
          /\ resp.err = "email already registered"
          /\ UserByEmail(users, Bases[resp.base]) /= {}
    /\ (resp.op = "Register" /\ resp.ok) =>
          \E u \in users : u.id = resp.uid /\ u.email = resp.email

\* A Register that started while the identity was free lost the race.
C8_Witness ==
    /\ resp.op = "Register"
    /\ resp.err = "email already registered"
    /\ resp.flag

\* C9: every Logout returns no error, and a Logout with a token that a
\* Logout has already completed for leaves the store as it was.
C9_LogoutIdempotent ==
    [][(resp = NoResp /\ resp'.op = "Logout") =>
          /\ resp'.err = ""
          /\ SessionByToken(sessions', resp'.token) = {}
          /\ resp'.token \in loggedOut =>
                (sessions' = sessions /\ users' = users)]_vars

\* A second Logout with an issued token has completed.
C9_Witness ==
    /\ resp.op = "Logout"
    /\ resp.flag
    /\ resp.token \in DOMAIN issuedTo
    /\ resp.err = ""

\* C10: every Logout clears the cookie (empty value, MaxAge 0), also when the
\* store fails; without a token, or without a session row for it, it returns
\* no error.
C10_LogoutClears ==
    resp.op = "Logout" =>
        /\ resp.cookie.kind = "clear"
        /\ resp.cookie.value = NoToken
        /\ resp.cookie.maxAge = 0
        /\ resp.cause \in {"no token", "not found", "deleted"} => resp.err = ""
        /\ resp.cause = "store" => resp.err = "delete session"

\* A Logout whose DELETE the store failed still cleared the cookie.
C10_Witness ==
    /\ resp.op = "Logout"
    /\ resp.cause = "store"
    /\ resp.cookie = clearCookie

\* C11: a Logout deletes the rows of the presented token and nothing else,
\* in sessions or users; afterwards a CurrentUser with a token whose session
\* was deleted before the call returns no identity, and a CurrentUser with an
\* issued token whose session was not deleted returns its owner.
C11_LogoutFrame ==
    [][/\ (Ready /\ resp'.op = "Logout") =>
            /\ sessions' = {s \in sessions : s.token /= resp'.token}
            /\ users' = users
       /\ (Ready /\ resp'.op = "CurrentUser" /\ resp'.token \in DOMAIN issuedTo) =>
            /\ resp'.flag => ~resp'.ok
            /\ resp'.token \notin wasDead' =>
                  (resp'.ok /\ resp'.uid = issuedTo[resp'.token])]_vars

\* A session resolves after another session of the same credential was
\* logged out.
C11_Witness ==
    /\ resp.op = "CurrentUser"
    /\ resp.ok
    /\ resp.token \notin wasDead
    /\ \E j \in loggedOut \cap DOMAIN issuedTo :
          j /= resp.token /\ issuedTo[j] = resp.uid

\* C12: when a prune (direct call or janitor sweep) and the lazy-expiry
\* deletion of CurrentUser act on the same expired token, neither reports an
\* error: a prune leaves no session with expires_at <= now, and a CurrentUser
\* that found its session expired returns no identity, no error, and leaves
\* no row with the token, whichever of the two deleted it.
C12_ConcurrentDeleters ==
    /\ resp.op = "Prune" =>
          /\ resp.ok
          /\ resp.err = ""
          /\ \A r \in sessions : r.expires_at > resp.nowU
    /\ (resp.op = "CurrentUser" /\ resp.cause = "expired") =>
          /\ ~resp.ok
          /\ resp.err = ""
          /\ resp.uid = 0
          /\ SessionByToken(sessions, resp.token) = {}

\* The lazy-expiry DELETE found the row already pruned.
C12_Witness ==
    /\ resp.op = "CurrentUser"
    /\ resp.cause = "expired"
    /\ resp.rows = 0
    /\ resp.token \in DOMAIN issuedTo
    /\ resp.err = ""

\* C13: once the stop channel is closed the janitor never leaves its wait
\* for a new sweep, also when a tick is buffered at that moment.
C13_NoSweepAfterStop ==
    [][(stopCh = "closed" /\ janitor = "wait") => janitor' /= "sweep"]_vars

\* C14: the store handle is closed only after the stop channel was closed
\* and the janitor has returned, never while a sweep is in flight, and every
\* sweep of the janitor runs on an open store handle.
C14_ShutdownOrder ==
    [][/\ (dbOpen /\ ~dbOpen') => (stopCh = "closed" /\ janitor = "exited")
       /\ (janitor = "sweep" \/ janitor' = "sweep") => (dbOpen /\ dbOpen')
       /\ (stopCh = "open" /\ stopCh' = "closed") => (dbOpen /\ dbOpen')]_vars

\* A sweep of the janitor ran after the stop signal, on the store still open.
C14_Witness ==
    /\ resp.op = "Prune"
    /\ resp.cause = "janitor"
    /\ resp.ok
    /\ stopCh = "closed"
    /\ dbOpen

C17_PruneExact ==
    [][(Ready /\ resp'.op = "Prune" /\ resp'.ok) =>
          /\ \A r \in sessions : r.expires_at <= resp'.nowU => r \notin sessions'
          /\ \A r \in sessions : r.expires_at > resp'.nowU => r \in sessions'
          /\ sessions' \subseteq sessions
          /\ users' = users
          /\ resp'.nowU = Unix(now)]_vars

\* A prune removed an expired session and kept one that had not expired.
C17_Witness ==
    /\ resp.op = "Prune"
    /\ resp.ok
    /\ resp.rows >= 1
    /\ \E r \in sessions : r.expires_at > resp.nowU

(* C18: RequireAuth runs the downstream handler exactly when the context
   already carries an identity and answers 401 otherwise, without running it.
   Behind Middleware the downstream handler runs only for a request whose
   token named an existing session row when the request looked it up, not
   expired by the clock the request read, and it runs as that row's owner. *)
Resolving(p) == pc[p] \in {"cu_now", "cu_update"} /\ pc'[p] = "idle"

ClockRead(p) == IF pc[p] = "cu_now" THEN Unix(now) ELSE loc[p].nowU

C18_RequireAuth ==
    [][/\ \A p \in Procs :
            (pc[p] = "idle" /\ pc'[p] = "cu_now") =>
                \E s \in sessions : /\ s.token = loc'[p].token
                                    /\ s.expires_at = loc'[p].exp
                                    /\ s.user_id = loc'[p].uid
       /\ (Ready /\ resp'.op = "CurrentUser") =>
            LET m == middlewareInternal(resp', NoCtx)
                c == MiddlewareRequireAuth(resp', NoCtx)
            IN  /\ \A ctx \in Contexts \cup {m.ctx} :
                       /\ requireAuthInternal(ctx).ran <=> fromContext(ctx).ok
                       /\ ~fromContext(ctx).ok => requireAuthInternal(ctx).status = 401
                       /\ fromContext(ctx).ok => requireAuthInternal(ctx).ctx = ctx
                /\ ~c.ran => c.status \in {401, 500}
                /\ c.ran =>
                       \E p \in Procs :
                           /\ Resolving(p)
                           /\ loc[p].token = resp'.token
                           /\ loc[p].exp > ClockRead(p)
                           /\ fromContext(c.ctx).user = loc[p].uid
                           /\ issuedTo[resp'.token] = loc[p].uid]_vars

\* A request with the token of an expired session is answered 401 by the
\* second stage.
C18_Witness ==
    /\ resp.op = "CurrentUser"
    /\ resp.cause = "expired"
    /\ resp.token \in DOMAIN issuedTo
    /\ middlewareInternal(resp, NoCtx).ran
    /\ MiddlewareRequireAuth(resp, NoCtx).status = 401
    /\ ~MiddlewareRequireAuth(resp, NoCtx).ran

(* C19: whenever its currentUserInternal call returns without an error,
   Middleware runs the downstream handler: with no identity for a request
   with no token, with a token no session row has, or with a token whose row
   is expired by the clock the request read; with the row's owner for a
   request whose row is not expired. *)
C19_MiddlewareAttaches ==
    [][(Ready /\ resp'.op = "CurrentUser" /\ resp'.err = "") =>
          LET m == middlewareInternal(resp', NoCtx)
          IN  /\ m.ran /\ m.status = 200
              /\ (pc' = pc) =>
                    /\ \/ resp'.token = NoToken
                       \/ SessionByToken(sessions, resp'.token) = {}
                       \/ \A s \in SessionByToken(sessions, resp'.token) :
                              UserById(users, s.user_id) = {}
                    /\ ~fromContext(m.ctx).ok
              /\ \A p \in Procs :
                    Resolving(p) =>
                      IF loc[p].exp <= ClockRead(p)
                      THEN ~fromContext(m.ctx).ok
                      ELSE /\ fromContext(m.ctx).ok
                           /\ fromContext(m.ctx).user = loc[p].uid
                           /\ issuedTo[resp'.token] = loc[p].uid]_vars

\* Middleware has run the downstream handler without an identity for a
\* request with the token of an expired session.
C19_Witness ==
    /\ resp.op = "CurrentUser"
    /\ resp.cause = "expired"
    /\ resp.token \in DOMAIN issuedTo
    /\ middlewareInternal(resp, NoCtx).ran
    /\ ~fromContext(middlewareInternal(resp, NoCtx).ctx).ok

(* C20: when the INSERT of the new session fails, Login returns an error and
   no identity, sets no cookie, and the store holds no session row for the
   token of that attempt. *)
C20_SessionInsertFails ==
    [][\A p \in Procs :
          (pc[p] = "login_session" /\ pc'[p] = "idle") =>
              /\ resp'.op = "Login"
              /\ resp'.ok <=> SessionByToken(sessions', resp'.token) /= {}
              /\ ~resp'.ok =>
                    /\ resp'.err /= ""
                    /\ resp'.uid = 0 /\ resp'.email = <<>>
                    /\ resp'.cookie = NoCookie
                    /\ sessions' = sessions]_vars

C20_Witness ==
    /\ resp.op = "Login"
    /\ resp.err = "create session"
    /\ resp.pw \in GoodPasswords
    /\ users /= {}
    /\ SessionByToken(sessions, resp.token) = {}

(* C21: the configured cost of an API is always within [4,31].  New returns
   an API exactly when the cost it was given, 0 standing for the default, is
   within the range; SetBcryptCost with a cost outside the range returns an
   error and leaves the configured cost as it was, and with a cost inside the
   range it succeeds and the configured cost is the one given. *)
CostInRange(cost) == cost \in BcryptMinCost..BcryptMaxCost

C21_CostInRange ==
    /\ [](/\ Built => CostInRange(cfg.BcryptCost)
          /\ ~Built => ~CostInRange(cfg.BcryptCost))
    /\ [][(Ready /\ resp'.op = "SetBcryptCost") =>
            /\ resp'.ok <=> CostInRange(resp'.exp)
            /\ resp'.ok => cfg'.BcryptCost = resp'.exp
            /\ ~resp'.ok => (resp'.err /= "" /\ cfg' = cfg)]_vars

\* SetBcryptCost has just refused a cost while another cost than the one
\* New was given is configured.
C21_Witness ==
    /\ resp.op = "SetBcryptCost"
    /\ ~resp.ok
    /\ resp.exp = BcryptMaxCost + 1
    /\ cfg.BcryptCost = BcryptMinCost + 1
    /\ users /= {}

(* C22: SetBcryptCost never invalidates a credential.  Whatever costs have
   been set since it was registered, a Login that presents the secret the
   credential was registered with succeeds, as that credential. *)
C22_CostKeepsCredentials ==
    [][(Ready /\ resp'.op = "Login" /\ resp'.flag) =>
          /\ resp'.ok
          /\ resp'.err = ""
          /\ \E u \in users' : u.id = resp'.uid /\ u.email = Bases[resp'.base]]_vars

\* A Login has succeeded for a credential whose stored hash has a higher
\* cost than the configured one: the cost was lowered after it was stored.
C22_Witness ==
    /\ resp.op = "Login"
    /\ resp.ok
    /\ resp.flag
    /\ \E u \in users : u.id = resp.uid /\ Cost(u.hash) > cfg.BcryptCost

(* C23: Register with a malformed identity, with a secret shorter than the
   configured minimum length or, when strong passwords are required, with a
   secret that lacks a letter or lacks a digit, never goes on to its INSERT:
   it is answered before any transaction is begun, with an input error, and
   the store is left as it was. *)
Malformed(raw) == raw \in BadEmails

TooShort(pw) == Len(pw) < cfg.MinPasswordLength

Weak(pw) == cfg.RequireStrongPasswords /\ pw \in {PwLetters, PwDigits}

C23_InvalidRegister ==
    [][/\ (Ready /\ resp'.op = "Register" /\ pc' = pc
              /\ (Malformed(resp'.raw) \/ TooShort(resp'.pw) \/ Weak(resp'.pw))) =>
            /\ ~resp'.ok
            /\ resp'.err \in {"invalid email", "password too short",
                               "password must contain at least one letter and one digit"}
            /\ users' = users /\ sessions' = sessions /\ tx' = tx
       /\ \A p \in Procs :
            (pc[p] = "idle" /\ pc'[p] = "reg_insert") =>
                /\ loc'[p].email = Bases[1]
                /\ ~TooShort(loc'[p].hash.secret)
                /\ ~Weak(loc'[p].hash.secret)]_vars

\* A secret of letters only has been refused under the strength requirement
\* while a credential exists.
C23_Witness ==
    /\ resp.op = "Register"
    /\ ~resp.ok
    /\ resp.pw = PwLetters
    /\ ~Malformed(resp.raw)
    /\ cfg.RequireStrongPasswords
    /\ users /= {}

(* C24, as stated: SameOrigin returns true whenever the request has no Origin
   header, for every method; with an Origin header it returns true exactly
   when the Origin's host equals the request host, ignoring case. *)
OriginMatches(r) == ~urlParse(r.origin).err /\ EqualFold(urlParse(r.origin).host, r.host)

RefererMatches(r) ==
    /\ r.referer /= <<>>
    /\ ~urlParse(r.referer).err
    /\ EqualFold(urlParse(r.referer).host, r.host)

C25_LoginPersists ==
    [][(Ready /\ resp'.op = "Login" /\ resp'.ok) =>
          \E s \in sessions' :
              /\ sessions' = sessions \cup {s}
              /\ SessionByToken(sessions, s.token) = {}
              /\ s.user_id = resp'.uid
              /\ \E u \in users : u.id = s.user_id /\ u.email = Bases[resp'.base]
              /\ s.expires_at * TicksPerSecond <= now + cfg.SessionTTL
              /\ now + cfg.SessionTTL < (s.expires_at + 1) * TicksPerSecond
              /\ users' = users
              /\ resp'.cookie.kind = "set"
              /\ resp'.cookie.value = s.token
              /\ resp'.cookie.expires = s.expires_at
              /\ resp'.cookie.maxAge >= 1]_vars

\* A Login has succeeded between two whole seconds with a TTL of less than
\* one second, beside an earlier session.
C25_Witness ==
    /\ resp.op = "Login"
    /\ resp.ok
    /\ now % TicksPerSecond /= 0
    /\ cfg.SessionTTL < TicksPerSecond
    /\ \E s \in sessions : s.token /= resp.token

(* C26: CurrentUser without a token answers "no identity" with no error and
   leaves the store as it was; CurrentUser with a token no session row has
   answers "no identity" with no error, with a cleared cookie, and neither
   goes on to the expiry test. *)
NoIdentity(rs) == ~rs.ok /\ rs.err = "" /\ rs.uid = 0 /\ rs.email = <<>>

C26_NoSession ==
    [][/\ (Ready /\ resp'.op = "CurrentUser" /\ pc' = pc /\ resp'.token = NoToken) =>
            /\ NoIdentity(resp')
            /\ users' = users /\ sessions' = sessions /\ tx' = tx
       /\ (Ready /\ resp'.op = "CurrentUser" /\ pc' = pc /\ resp'.token /= NoToken
              /\ SessionByToken(sessions, resp'.token) = {}) =>
            /\ NoIdentity(resp')
            /\ resp'.cookie = clearCookie
            /\ users' = users /\ sessions' = sessions /\ tx' = tx
       /\ \A p \in Procs :
            (pc[p] = "idle" /\ pc'[p] = "cu_now") =>
                /\ loc'[p].token /= NoToken
                /\ SessionByToken(sessions, loc'[p].token) /= {}]_vars

\* A request with an issued token whose row is gone has been told to clear
\* its cookie.
C26_Witness ==
    /\ resp.op = "CurrentUser"
    /\ resp.cause = "not found"
    /\ resp.token \in DOMAIN issuedTo
    /\ SessionByToken(sessions, resp.token) = {}
    /\ resp.cookie = clearCookie

(* C27: a successful RevokeAllSessions(userID) deletes exactly the sessions
   of that credential: the sessions of other credentials and every stored
   hash are as before.  A request that presents a token whose session was
   deleted before the request looked it up gets no identity, and a Login with
   the secret the credential was registered with still succeeds. *)
C27_RevokeFrame ==
    [][/\ (Ready /\ resp'.op = "RevokeAll" /\ resp'.ok) =>
            /\ sessions' = {s \in sessions : s.user_id /= resp'.uid}
            /\ users' = users
       /\ (Ready /\ resp'.op = "CurrentUser" /\ resp'.flag) => ~resp'.ok
       /\ (Ready /\ resp'.op = "Login" /\ resp'.flag) => resp'.ok]_vars

\* RevokeAllSessions has deleted a session of its credential and left one of
\* the other credential.
C27_Witness ==
    /\ resp.op = "RevokeAll"
    /\ resp.ok
    /\ \E t \in wasDead : issuedTo[t] = resp.uid
    /\ \E s \in sessions : s.user_id /= resp.uid

(* C28: a password change invalidates every session authenticated with the
   old secret, in every interleaving with Login: a Login never creates a
   session from a secret that the credential's stored hash, as committed when
   the session is created, does not verify. *)
C28_NoSessionFromOldSecret ==
    [][(Ready /\ resp'.op = "Login" /\ resp'.ok) =>
          \E u \in users' : u.id = resp'.uid /\ CompareHashAndPassword(u.hash, resp'.pw)]_vars

(* C29: the hash upgrade of Login runs only after the presented secret has
   verified.  A Login for an unknown identity or with another secret than the
   credential's is answered in its first step with "invalid credentials" and
   leaves the store as it was; only a Login that presented the credential's
   secret goes on to the cost comparison, and a stored hash is rewritten only
   by such a Login or by a Register. *)
StoredHash(us, uid) == (CHOOSE u \in UserById(us, uid) : TRUE).hash

C29_UpgradeAfterVerify ==
    [][/\ (Ready /\ resp'.op = "Login" /\ ~resp'.flag) =>
            /\ ~resp'.ok
            /\ resp'.err = "invalid credentials"
            /\ resp'.cookie = NoCookie
            /\ users' = users /\ sessions' = sessions /\ tx' = tx
            /\ pc' = pc /\ nextToken' = nextToken
       /\ \A p \in Procs :
            (pc[p] = "idle" /\ pc'[p] \in {"login_rehash", "login_upgrade", "login_session"}) =>
                loc'[p].flag
       /\ (users' /= users) =>
            \E p \in Procs :
                \/ pc[p] = "reg_commit"
                \/ /\ pc[p] = "login_upgrade"
                   /\ loc[p].flag
                   /\ StoredHash(users', loc[p].uid).secret = regSecret[loc[p].base]]_vars

\* A Login with a wrong secret has been refused while the stored hash has a
\* lower cost than the configured one.
C29_Witness ==
    /\ resp.op = "Login"
    /\ resp.cause = "wrong secret"
    /\ ~resp.ok
    /\ \E u \in users : u.email = Bases[resp.base] /\ Cost(u.hash) < cfg.BcryptCost

(* C30: a Login that finds the cost of the stored hash at or above the
   configured cost goes on without the upgrade and leaves the hash as it was.
   When a Login rewrites a stored hash, the hash it replaces has a cost below
   the configured cost and the hash written has the configured cost and
   verifies the same secret, the configured cost being the one the Login read,
   at its comparison or at its rehash. *)
CostsRead(l) == {l.exp, Cost(l.hash)}

C30_UpgradeToConfigured ==
    [][\A p \in Procs :
          /\ (pc[p] = "idle" /\ pc'[p] = "login_session") =>
                Cost(StoredHash(users, loc'[p].uid)) >= cfg.BcryptCost
          /\ (pc[p] = "idle" /\ pc'[p] = "login_rehash") =>
                Cost(StoredHash(users, loc'[p].uid)) < cfg.BcryptCost
          /\ (pc[p] = "login_upgrade" /\ pc'[p] = "login_session" /\ users' /= users) =>
                /\ \E c \in CostsRead(loc[p]) :
                      /\ Cost(StoredHash(users, loc[p].uid)) < c
                      /\ Cost(StoredHash(users', loc[p].uid)) = c
                /\ StoredHash(users', loc[p].uid).secret
                      = StoredHash(users, loc[p].uid).secret
          /\ (pc[p] = "login_session" /\ pc'[p] = "idle") => users' = users]_vars

\* C31: a failure of the hash upgrade during Login, the rehash returning an
\* error or the store refusing the UPDATE, does not fail the login.  The step
\* that fails leaves the stored rows as they were and the login goes on to
\* create its session; unless the INSERT of the session fails in its own
\* right, the login then answers with the identity, a session row under the
\* token of its cookie exists, and the stored hash is still the earlier one.
C31_UpgradeFailureSwallowed ==
    [][\A p \in Procs :
          /\ (pc[p] \in {"login_rehash", "login_upgrade"} /\ loc'[p].logged /= "") =>
                /\ pc'[p] = "login_session"
                /\ users' = users
          /\ (pc[p] = "login_session" /\ loc[p].logged /= "" /\ pc'[p] = "idle") =>
                /\ users' = users
                /\ resp'.op = "Login"
                /\ \/ resp'.err = "create session"
                   \/ /\ resp'.ok
                      /\ resp'.uid = loc[p].uid
                      /\ resp'.email = loc[p].email
                      /\ resp'.cookie.kind = "set"
                      /\ resp'.cookie.value = resp'.token
                      /\ \E s \in sessions' \ sessions :
                            s.token = resp'.token /\ s.user_id = loc[p].uid]_vars

\* A login has succeeded although the store refused the UPDATE of its
\* upgrade: its session is stored and the hash is still below the configured
\* cost.
C31_Witness ==
    /\ resp.op = "Login"
    /\ resp.ok
    /\ resp.logged = "bcrypt upgrade failed"
    /\ \E s \in sessions : s.token = resp.token /\ s.user_id = resp.uid
    /\ Cost(StoredHash(users, resp.uid)) < cfg.BcryptCost

\* The same after an error of the rehash.
RehashErrorSwallowed ==
    /\ resp.op = "Login"
    /\ resp.ok
    /\ resp.logged = "bcrypt rehash error"
    /\ \E s \in sessions : s.token = resp.token /\ s.user_id = resp.uid
    /\ Cost(StoredHash(users, resp.uid)) < cfg.BcryptCost

\* A login in flight that has written its upgraded hash.
Upgraded(p) == pc[p] = "login_session" /\ loc[p].exp /= 0 /\ loc[p].logged = ""

\* C32: when two Logins of the same credential upgrade its hash at the same
\* time, in every interleaving the hash stored in the end is one of the two
\* written and verifies the credential's secret, and both Logins succeed.
\* Every stored hash verifies the secret the credential registered with;
\* once the credential exists its row changes only by the UPDATE of an
\* upgrade, which leaves exactly the hash that Login wrote, so the last write
\* wins; and every Login that reaches its session answers with the identity.
C32_UpgradeRace ==
    /\ [](\A u \in users : CompareHashAndPassword(u.hash, regSecret[BaseOf(u.email)]))
    /\ [][/\ (users /= {} /\ users' /= users) =>
               \E p \in Procs :
                   /\ pc[p] = "login_upgrade"
                   /\ pc'[p] = "login_session"
                   /\ StoredHash(users', loc[p].uid) = loc[p].hash
                   /\ Cardinality(users') = Cardinality(users)
          /\ \A p \in Procs :
               (pc[p] = "login_session" /\ pc'[p] = "idle") =>
                   /\ resp'.op = "Login"
                   /\ resp'.ok
                   /\ resp'.uid = loc[p].uid
                   /\ \E s \in sessions' : s.token = resp'.token]_vars

\* Two Logins of one credential have both written their upgrade, with
\* different hashes, and the stored hash is the one of the second.
C32_Witness ==
    \E p, q \in Procs :
        /\ p /= q
        /\ Upgraded(p)
        /\ Upgraded(q)
        /\ loc[p].uid = loc[q].uid
        /\ loc[p].hash /= loc[q].hash
        /\ StoredHash(users, loc[q].uid) = loc[q].hash
        /\ CompareHashAndPassword(loc[q].hash, Pw1)

\* C33: when two CurrentUser calls on the same token run at the same time
\* inside the refresh window, both return the identity and the stored
\* expires_at never decreases.  The stored expiry changes only by the
\* extension writes and each call signals the value it wrote in the same
\* step, so this is: every call that reaches its extension write returns the
\* identity, and no extension write lowers the stored expires_at of its token.
C33_ExpiryNeverDecreases ==
    [][\A p \in Procs :
          (pc[p] = "cu_update" /\ pc'[p] = "idle") =>
              /\ resp'.op = "CurrentUser"
              /\ resp'.ok
              /\ resp'.uid = loc[p].uid
              /\ \A r \in SessionByToken(sessions, loc[p].token) :
                    \A n \in SessionByToken(sessions', loc[p].token) :
                        n.expires_at >= r.expires_at]_vars

\* A sweep of the janitor has just returned a store error.
SweepFailed == resp.op = "Prune" /\ resp.cause = "janitor" /\ ~resp.ok

\* C34: a store error during a sweep does not stop the janitor.  The error
\* is logged and the janitor is back at the select of its loop; from there it
\* starts a sweep again, on the next tick, unless the stop channel is closed.
C34_SweepErrorContinues ==
    /\ [](SweepFailed => (janitor = "wait" /\ resp.logged = "janitor prune error"))
    /\ (SweepFailed ~> (janitor = "sweep" \/ stopCh = "closed"))

\* A sweep failed on the open store while an expired session was waiting to
\* be pruned: the session is still stored and the janitor is in its loop.
C34_Witness ==
    /\ SweepFailed
    /\ dbOpen
    /\ stopCh = "open"
    /\ janitor = "wait"
    /\ \E r \in sessions : r.expires_at <= Unix(now)

\* C35: the stored hash of a credential always verifies exactly the secret
\* most recently set by Register or by a committed ChangePassword.  The secret
\* a stored hash verifies changes only in the commit of a Register or of a
\* ChangePassword on that credential, and then to the secret that call sets:
\* the upgrade of a Login in flight never puts an earlier secret back.
C35_LatestSecretKept ==
    [][\A uid \in UserIds :
          SecretOf(users', uid) /= SecretOf(users, uid) =>
              \E p \in Procs :
                  /\ pc[p] \in {"reg_commit", "cp_commit"}
                  /\ pc'[p] = "idle"
                  /\ loc[p].uid = uid
                  /\ SecretOf(users', uid) = loc[p].hash.secret]_vars

\* C36: whenever CurrentUser re-issues the session cookie, a session row
\* with the cookie's token is stored and its expires_at is the expiry the
\* cookie carries; a refresh that races with a deletion of the session never
\* re-issues a cookie for the deleted session.
C36_RefreshedCookieHasRow ==
    (resp.op = "CurrentUser" /\ resp.cookie.kind = "set") =>
        \E s \in sessions :
            /\ s.token = resp.cookie.value
            /\ s.expires_at = resp.cookie.expires

\* C37: the identity CurrentUser returns for a token is always the
\* credential that authenticated in the Login which issued the token.  Every
\* stored session belongs to the credential its token was issued to, a Login
\* answers with the credential its token is issued to, and a CurrentUser that
\* returns an identity returns the one the presented token was issued to,
\* under the identity that credential registered with.
C37_TokenOwner ==
    /\ \A s \in sessions : s.token \in DOMAIN issuedTo /\ s.user_id = issuedTo[s.token]
    /\ (resp.op = "Login" /\ resp.ok) => issuedTo[resp.token] = resp.uid
    /\ (resp.op = "CurrentUser" /\ resp.ok) =>
          /\ resp.token \in DOMAIN issuedTo
          /\ resp.uid = issuedTo[resp.token]
          /\ resp.email = EmailOf(users, issuedTo[resp.token])

\* A token issued to the second credential resolves to it in a refresh,
\* beside the first credential.
C37_Witness ==
    /\ resp.op = "CurrentUser"
    /\ resp.ok
    /\ resp.cause = "refresh"
    /\ resp.uid = 2
    /\ issuedTo[resp.token] = 2
    /\ UserById(users, 1) /= {}

\* C38: for every configured SessionTTL above zero, whole seconds or not, a
\* session that Login creates at clock reading t is valid when resolved at
\* the same reading: the whole-second expires_at stored for it is strictly
\* greater than the whole second of t.
C38_FreshSessionValid ==
    (resp.op = "Login" /\ resp.ok) =>
        /\ SessionByToken(sessions, resp.token) /= {}
        /\ \A s \in SessionByToken(sessions, resp.token) :
              /\ s.expires_at > resp.nowU
              /\ ~sessionExpired(Unix(now), s.expires_at)

====
